---- MODULE Spec2Model ----
(***************************************************************************)
(* Realtime reconciliation engine of sl-live.                              *)
(*                                                                         *)
(*  - SLService.getLiveVehicles (the resolver): fuses the decoded vehicle  *)
(*    positions with the trip updates and the static catalog.              *)
(*  - The history store: the collection vehicle_trails, written by the     *)
(*    cron ingestion (api/cron.ts) and by the ingest endpoint              *)
(*    (api/ingest.ts), read by the history endpoint (api/history).         *)
(*                                                                         *)
(*  - The lookups of SLService (findVehicle, search), the selection and    *)
(*    the history trail of the App, and the cron handler's loop.           *)
(*                                                                         *)
(* Conventions.  A JavaScript value that may be undefined is an option:    *)
(* None is undefined/null, Some(x) is the value x.  An absent string is    *)
(* the empty string: the code tests strings by truthiness only, and both   *)
(* undefined and "" are falsy.  Time is counted in units of two hours.     *)
(***************************************************************************)
EXTENDS Integers, Sequences, FiniteSets, TLC

VARIABLES
    \* ---- SLService (browser) ----
    isInitialized,    \* SLService.isInitialized
    tripToRouteMap,   \* SLService.tripToRouteMap : None | Some(tripId -> [r, h])
    routeDirections,  \* SLService.routeDirections: None | Some(routeId -> dir -> headsign)
    stopsMap,         \* SLService.stopsMap       : stopId -> name
    call,             \* the getLiveVehicles call of this poll tick: its inputs, or None
    threw,            \* whether that call ended in a rejected promise
    liveVehicles,     \* what that call returned
    \* ---- App (browser) ----
    loading,          \* App.loading
    app,              \* which App runs: "full" (unnamed/part_002) or "simple" (App.tsx); "" while loading
    vehicles,         \* App.vehicles, the displayed vehicle set
    liveStatus,       \* App.liveStatus: "loading", "ok" or "error"
    activeRoute,      \* App.activeRoute: None | Some(SLLineRoute)
    showAllVehicles,  \* App.showAllVehicles
    visibleBounds,    \* App.visibleBounds: None | Some(box)
    ticks,            \* the fetchLive calls in flight, in the order they started
    started,          \* how many fetchLive calls were started
    done,             \* history variable, not program state: the fetchLive calls that
                      \* completed since the displayed set was last cleared, in the
                      \* order they completed
    \* ---- static cache (browser storage) ----
    day,              \* Date.now(), in days
    timestamp,        \* localStorage[STATIC_TS_KEY]: None | Some(day)
    stopsTable,       \* the object store "stops": stop id -> name
    routesTable,      \* the object store "routes": a set of route ids
    inits,            \* per caller of initialize(): where its call stands
    txs,              \* the readwrite transactions that were opened and not yet finished
    fetches,          \* history variable, not program state: how many times this
                      \* session fetched the static extract
    \* ---- history store (server) ----
    clock,            \* Date.now(), in units of two hours
    vehicle_trails,   \* the collection "vehicle_trails": documents in insertion order
    cron,             \* the cron ingestion's fetchAndSaveData in progress
    ingest,           \* the ingest endpoint's handler in progress
    res,              \* the response sent by the step just taken, or None
    appended,         \* history variable, not program state: per tripId, the time the
                      \* last append to its record reached the collection; None when
                      \* the collection holds no record of the trip
    \* ---- lookups and selection (browser) ----
    found,            \* the findVehicle call last made: its inputs and what it returned
    searched,         \* the search call last made: its inputs and what it returned
    selectedVehicleId,\* App.selectedVehicleId: None | Some(vehicle id)
    historyPath,      \* App.historyPath, the displayed history trail
    reads,            \* the getVehicleHistory calls in flight: their tripIds
    \* ---- cron handler (server) ----
    cronRun           \* the cron handler's loop: where it stands, the time it has
                      \* used, its iterations and its results

svcVars   == <<isInitialized, tripToRouteMap, routeDirections, stopsMap, call, threw, liveVehicles>>
appVars   == <<loading, app, vehicles, liveStatus, activeRoute, showAllVehicles, visibleBounds,
               ticks, started, done>>
cacheVars == <<day, timestamp, stopsTable, routesTable, inits, txs, fetches>>
histVars  == <<clock, vehicle_trails, cron, ingest, res, appended>>
uiVars    == <<found, searched, selectedVehicleId, historyPath, reads>>
loopVars  == <<cronRun>>
vars      == <<isInitialized, tripToRouteMap, routeDirections, stopsMap, call, threw, liveVehicles,
               loading, app, vehicles, liveStatus, activeRoute, showAllVehicles, visibleBounds,
               ticks, started, done,
               day, timestamp, stopsTable, routesTable, inits, txs, fetches,
               clock, vehicle_trails, cron, ingest, res, appended,
               found, searched, selectedVehicleId, historyPath, reads, cronRun>>

--------------------------------------------------------------------------
(* Options, maps and sequences *)

None        == <<>>
Some(x)     == <<x>>
IsSome(o)   == o # <<>>
Get(o)      == o[1]

EmptyMap    == [k \in {} |-> None]
MapSet(m, k, v) == [x \in (DOMAIN m) \cup {k} |-> IF x = k THEN v ELSE m[x]]

--------------------------------------------------------------------------
(* Domains of the decoded realtime feed and of the static catalog *)

MaxFeed == 4   \* decoded items per poll: position entities + update entities + stop-time updates

Unknown == "Okänd"

\* FeedEntity.vehicle (VehiclePosition): whether the entity carries a vehicle
\* record, a position and a trip descriptor, and the trip descriptor's fields.
PosOk(t, r, d) == [vehicle |-> TRUE, position |-> TRUE, trip |-> TRUE,
                   tripId |-> t, routeId |-> r, directionId |-> d]
PosEntities ==
    {PosOk("t1", "", None), PosOk("t1", "", Some(0)), PosOk("t1", "rP", Some(0)),
     PosOk("t2", "", None),
     PosOk("", "rP", None),
     [PosOk("t1", "rP", None) EXCEPT !.position = FALSE]}

\* StopTimeUpdate: arrival.delay, departure.delay, stop_id
StopTimeUpdates ==
    {[arrival |-> Some(0), departure |-> Some(60), stopId |-> "s1"],
     [arrival |-> None,    departure |-> Some(60), stopId |-> "s2"],
     [arrival |-> None,    departure |-> None,     stopId |-> ""]}

\* FeedEntity.trip_update (TripUpdate)
UpdOk(t, r, d, stus) == [tripUpdate |-> TRUE, tripId |-> t, routeId |-> r,
                         directionId |-> d, stopTimeUpdate |-> stus]
UpdHeaders ==
    {UpdOk("t1", "", None, <<>>), UpdOk("t1", "rU", Some(1), <<>>),
     UpdOk("t2", "rU", Some(1), <<>>),
     UpdOk("", "rU", Some(1), <<>>)}

\* Sequences over S of exactly n elements
SeqsOfLen(S, n) == [1..n -> S]

\* Update feeds of exactly n decoded items: the last entity takes c of them
RECURSIVE UpdFeedsOfSize(_)
UpdFeedsOfSize(n) ==
    IF n = 0 THEN {<<>>}
    ELSE UNION {{Append(f, [h EXCEPT !.stopTimeUpdate = stus]) :
                    f \in UpdFeedsOfSize(n - c), h \in UpdHeaders,
                    stus \in SeqsOfLen(StopTimeUpdates, c - 1)} : c \in 1..n}

\* The update feeds by size, and the position feeds by length
UpdFeeds == [n \in 0..MaxFeed |-> UpdFeedsOfSize(n)]
PosFeeds == [n \in 0..MaxFeed |-> SeqsOfLen(PosEntities, n)]

\* SLLineRoute, the route argument of getLiveVehicles
Routes == {None,
           Some([id |-> "rP", trip_ids |-> {"t1"}]),
           Some([id |-> "rM", trip_ids |-> {"t9"}])}

\* trip-to-route.json: tripId -> {r, h}
TripMapFull  == [t \in {"t1", "t2"} |-> IF t = "t1" THEN [r |-> "rM", h |-> "H1"]
                                                  ELSE [r |-> "rM", h |-> ""]]
TripMapBare  == [t \in {"t1", "t2"} |-> IF t = "t1" THEN [r |-> "", h |-> Unknown]
                                                  ELSE [r |-> "", h |-> "H2"]]

\* route-directions.json: routeId -> directionId -> headsign
RouteDirTable ==
    [r \in {"rP", "rU", "rM"} |->
        CASE r = "rP" -> [d \in {"0"} |-> "D0"]
          [] r = "rU" -> [d \in {"0", "1"} |-> IF d = "0" THEN "D0" ELSE Unknown]
          [] r = "rM" -> [d \in {"1"} |-> "D1"]]

\* the stops table's id -> name index
StopNames == [s \in {"s1"} |-> "S1"]

\* the static catalogs initialize may leave in memory: a map that could not be
\* loaded stays null
Catalogs ==
    {[tripMap |-> None,              routeDirs |-> None,                stops |-> StopNames],
     [tripMap |-> Some(EmptyMap),    routeDirs |-> Some(RouteDirTable), stops |-> StopNames],
     [tripMap |-> Some(TripMapFull), routeDirs |-> Some(RouteDirTable), stops |-> StopNames],
     [tripMap |-> Some(TripMapBare), routeDirs |-> Some(RouteDirTable), stops |-> StopNames]}

--------------------------------------------------------------------------
(* SLService.getLiveVehicles *)

\* what TripUpdateInfo must not be: the delays are tested by truthiness, so an arrival
\* delay of 0 counts as absent
TripUpdateInfoTruthy(e) ==
    LET updates     == e.stopTimeUpdate
        firstUpdate == updates[1]
        lastUpdate  == updates[Len(updates)]
        Truthy(d)   == IsSome(d) /\ Get(d) # 0
    IN  [delay       |-> IF Len(updates) > 0
                         THEN IF Truthy(firstUpdate.arrival) THEN firstUpdate.arrival
                              ELSE IF Truthy(firstUpdate.departure) THEN firstUpdate.departure
                              ELSE None
                         ELSE None,
         directionId |-> e.directionId,
         routeId     |-> e.routeId,
         lastStopId  |-> IF Len(updates) > 0 THEN lastUpdate.stopId ELSE ""]

\* the tripInfoMap entry of one trip update entity
TripUpdateInfo(e) ==
    LET updates     == e.stopTimeUpdate
        firstUpdate == updates[1]
        lastUpdate  == updates[Len(updates)]
    IN  [delay       |-> IF Len(updates) > 0
                         THEN IF IsSome(firstUpdate.arrival) THEN firstUpdate.arrival
                              ELSE IF IsSome(firstUpdate.departure) THEN firstUpdate.departure
                              ELSE None
                         ELSE None,
         directionId |-> e.directionId,
         routeId     |-> e.routeId,
         lastStopId  |-> IF Len(updates) > 0 THEN lastUpdate.stopId ELSE ""]

\* tripInfoMap after the loop over the update entities: a later entity of the
\* same tripId replaces the earlier one (Map.set)
RECURSIVE IndexTripUpdates(_, _)
IndexTripUpdates(updateEntities, tripInfoMap) ==
    IF updateEntities = <<>> THEN tripInfoMap
    ELSE LET e == Head(updateEntities)
         IN  IndexTripUpdates(Tail(updateEntities),
                 IF e.tripUpdate /\ e.tripId # ""
                 THEN MapSet(tripInfoMap, e.tripId, TripUpdateInfo(e))
                 ELSE tripInfoMap)

\* tripInfoMap.get(tripId)
InfoOf(tripInfoMap, tripId) ==
    IF tripId \in DOMAIN tripInfoMap THEN Some(tripInfoMap[tripId]) ELSE None

\* this.tripToRouteMap && this.tripToRouteMap[tripId]
MapEntryOf(tripMap, tripId) ==
    IF IsSome(tripMap) /\ tripId \in DOMAIN Get(tripMap) THEN Some(Get(tripMap)[tripId]) ELSE None

\* what ResolveRouteId must not be: the trip-map entry overrides the feed's route id
\* (as findVehicle does)
ResolveRouteIdMapFirst(v, info, mapEntry) ==
    LET own    == v.routeId
        joined == IF IsSome(info) /\ own = "" THEN Get(info).routeId ELSE own
    IN  IF IsSome(mapEntry) THEN Get(mapEntry).r ELSE joined

\* routeId when the loop body reaches "if (!routeId) continue"
ResolveRouteId(v, info, mapEntry) ==
    LET own   == v.routeId
        joined == IF IsSome(info) /\ own = "" THEN Get(info).routeId ELSE own
    IN  IF IsSome(mapEntry) /\ joined = "" THEN Get(mapEntry).r ELSE joined

\* directionId after the join with the trip update
ResolveDirectionId(v, info) ==
    IF IsSome(info) /\ v.directionId = None THEN Get(info).directionId ELSE v.directionId

\* String(directionId)
DirStr(directionId) == CASE directionId = 0 -> "0" [] directionId = 1 -> "1"

\* this.routeDirections[routeId]?.[dirStr], "" when there is none
FallbackHeadsign(routeDirs, routeId, dirStr) ==
    IF routeId \in DOMAIN routeDirs /\ dirStr \in DOMAIN routeDirs[routeId]
    THEN routeDirs[routeId][dirStr] ELSE ""

\* this.stopsMap.get(stopId), "" when there is none
StopName(stops, stopId) == IF stopId \in DOMAIN stops THEN stops[stopId] ELSE ""

\* what ResolveHeadsign must not be: the last stop's name is tried before the
\* route-direction table
ResolveHeadsignStopFirst(routeId, directionId, info, mapEntry, routeDirs, stops) ==
    LET fromMap  == IF IsSome(mapEntry) /\ Get(mapEntry).h # ""
                    THEN Get(mapEntry).h ELSE Unknown
        fromStop == IF /\ fromMap = "" \/ fromMap = Unknown
                       /\ IsSome(info)
                       /\ Get(info).lastStopId # ""
                       /\ StopName(stops, Get(info).lastStopId) # ""
                    THEN StopName(stops, Get(info).lastStopId)
                    ELSE fromMap
    IN  IF /\ fromStop = "" \/ fromStop = Unknown
           /\ routeId # ""
           /\ IsSome(directionId)
           /\ IsSome(routeDirs)
           /\ FallbackHeadsign(Get(routeDirs), routeId, DirStr(Get(directionId))) # ""
        THEN FallbackHeadsign(Get(routeDirs), routeId, DirStr(Get(directionId)))
        ELSE fromStop

\* headsign when the vehicle is pushed
ResolveHeadsign(routeId, directionId, info, mapEntry, routeDirs, stops) ==
    LET fromMap  == IF IsSome(mapEntry) /\ Get(mapEntry).h # ""
                    THEN Get(mapEntry).h ELSE Unknown
        fromDir  == IF /\ fromMap = "" \/ fromMap = Unknown
                       /\ routeId # ""
                       /\ IsSome(directionId)
                       /\ IsSome(routeDirs)
                       /\ FallbackHeadsign(Get(routeDirs), routeId, DirStr(Get(directionId))) # ""
                    THEN FallbackHeadsign(Get(routeDirs), routeId, DirStr(Get(directionId)))
                    ELSE fromMap
    IN  IF /\ fromDir = "" \/ fromDir = Unknown
           /\ IsSome(info)
           /\ Get(info).lastStopId # ""
           /\ StopName(stops, Get(info).lastStopId) # ""
        THEN StopName(stops, Get(info).lastStopId)
        ELSE fromDir

\* what HasTripId must not be: the tripId test is missing
HasTripDescriptor(e) == e.vehicle /\ e.position /\ e.trip

\* whether the loop body gets past its two "continue"s on the entity's shape
HasTripId(e) == e.vehicle /\ e.position /\ e.trip /\ e.tripId # ""

\* what Emits must not be: a vehicle without a route id is pushed too
EmitsUnattributed(e, routeId) == HasTripId(e)

\* whether the loop body pushes a vehicle for the entity
Emits(e, routeId) == HasTripId(e) /\ routeId # ""

\* the loop over posEntities: allVehicles after the entities from index i on
RECURSIVE ResolveFrom(_, _, _, _, _, _, _)
ResolveFrom(posEntities, i, tripInfoMap, tripMap, routeDirs, stops, allVehicles) ==
    IF i > Len(posEntities) THEN allVehicles
    ELSE LET e        == posEntities[i]
             info     == InfoOf(tripInfoMap, e.tripId)
             mapEntry == MapEntryOf(tripMap, e.tripId)
             routeId  == ResolveRouteId(e, info, mapEntry)
             directionId == ResolveDirectionId(e, info)
             vehicle  == [id          |-> i,
                          line        |-> routeId,
                          tripId      |-> e.tripId,
                          destination |-> ResolveHeadsign(routeId, directionId, info,
                                                          mapEntry, routeDirs, stops),
                          type        |-> "Buss",
                          delay       |-> IF IsSome(info) THEN Get(info).delay ELSE None]
         IN  ResolveFrom(posEntities, i + 1, tripInfoMap, tripMap, routeDirs, stops,
                 IF Emits(e, routeId)
                 THEN Append(allVehicles, vehicle) ELSE allVehicles)

\* allVehicles: every labelled vehicle of the feed
AllVehicles(feed, tripMap, routeDirs, stops) ==
    ResolveFrom(feed.posEntities, 1, IndexTripUpdates(feed.updateEntities, EmptyMap),
                tripMap, routeDirs, stops, <<>>)

\* what FilterByRoute must not be: no fallback to the vehicles of the route's line
FilterByRouteTripsOnly(allVehicles, route) ==
    IF route = None THEN allVehicles
    ELSE LET InTrips(v) == v.tripId \in Get(route).trip_ids
         IN  SelectSeq(allVehicles, InTrips)

\* the route filter at the end of getLiveVehicles
FilterByRoute(allVehicles, route) ==
    IF route = None THEN allVehicles
    ELSE LET InTrips(v) == v.tripId \in Get(route).trip_ids
             OnLine(v)  == v.line = Get(route).id
             filteredVehicles == SelectSeq(allVehicles, InTrips)
         IN  IF Len(filteredVehicles) = 0 /\ Len(allVehicles) > 0
             THEN SelectSeq(allVehicles, OnLine)
             ELSE filteredVehicles

\* what getLiveVehicles returns for a call.  posRes is the outcome of the
\* position fetch and decode, updatesRes that of the trip-update fetch; every
\* failure ends in the catch block, which returns [].
GetLiveVehiclesReturn(c, tripMap, routeDirs, stops) ==
    IF c.posRes # "ok" \/ c.updatesRes = "malformed" THEN <<>>
    ELSE FilterByRoute(AllVehicles(c.feed, tripMap, routeDirs, stops), c.route)

--------------------------------------------------------------------------
(* SLService.getLiveVehicles of services/slService.ts, the route view's       *)
(* resolver: no trip updates, the trip map gives a route id only, the          *)
(* destination is always "Okänd", and a failed fetch or decode is thrown.      *)

\* the loop over entities
RECURSIVE ResolveSimpleFrom(_, _, _, _)
ResolveSimpleFrom(entities, i, tripMap, allVehicles) ==
    IF i > Len(entities) THEN allVehicles
    ELSE LET e        == entities[i]
             mapEntry == MapEntryOf(tripMap, e.tripId)
             routeId  == IF e.routeId = "" /\ IsSome(mapEntry)
                         THEN Get(mapEntry).r ELSE e.routeId
             vehicle  == [id          |-> i,
                          line        |-> routeId,
                          tripId      |-> e.tripId,
                          destination |-> Unknown,
                          type        |-> "Buss",
                          delay       |-> None]
         IN  ResolveSimpleFrom(entities, i + 1, tripMap,
                 IF Emits(e, routeId) THEN Append(allVehicles, vehicle) ELSE allVehicles)

\* whether the call ends in a rejected promise
GetLiveVehiclesSimpleThrows(c, tripMap) ==
    /\ c.route # None /\ tripMap # None
    /\ c.posRes \in {"httpError", "networkError", "malformed"}

\* what the call returns when it does not throw
GetLiveVehiclesSimpleReturn(c, tripMap) ==
    IF c.route = None \/ tripMap = None \/ c.posRes # "ok" THEN <<>>
    ELSE FilterByRoute(ResolveSimpleFrom(c.feed.posEntities, 1, tripMap, <<>>), c.route)

\* the result of a call by either resolver
ReturnOf(c, tripMap, routeDirs, stops) ==
    IF c.variant = "simple" THEN GetLiveVehiclesSimpleReturn(c, tripMap)
    ELSE GetLiveVehiclesReturn(c, tripMap, routeDirs, stops)

--------------------------------------------------------------------------
(* The service as a state machine: initialize, then any number of polls *)

\* a call of getLiveVehicles: the outcome of the position fetch and decode,
\* that of the trip-update fetch, the decoded feeds and the route argument;
\* poll counts the polls that received these same inputs
Call(variant, posRes, updatesRes, ps, us, route) ==
    [variant |-> variant, posRes |-> posRes, updatesRes |-> updatesRes,
     feed |-> [posEntities |-> ps, updateEntities |-> us], route |-> route,
     poll |-> 1]

SvcInit ==
    /\ isInitialized = FALSE
    /\ tripToRouteMap = None
    /\ routeDirections = None
    /\ stopsMap = EmptyMap
    /\ call = None
    /\ threw = FALSE
    /\ liveVehicles = <<>>

\* the trip ids of the feeds
TripIds == {"t1", "t2"}

\* the collection vehicle_trails is empty, no writer is running
HistInit ==
    /\ clock = 0
    /\ appended = [tripId \in TripIds |-> None]
    /\ vehicle_trails = <<>>
    /\ cron = None
    /\ ingest = None
    /\ res = None

\* the App as mounted: the loading screen, nothing displayed, no poll running
AppInit ==
    /\ loading = TRUE
    /\ app = ""
    /\ vehicles = <<>>
    /\ liveStatus = "loading"
    /\ activeRoute = None
    /\ showAllVehicles = FALSE
    /\ visibleBounds = None
    /\ ticks = <<>>
    /\ started = 0
    /\ done = <<>>

MaxCallers == 2   \* callers of initialize() in one session

Callers == 1..MaxCallers

\* a caller that is not inside initialize()
Idle == [pc |-> "idle"]

\* the browser storage of a first visit: no timestamp, both object stores empty
CacheInit ==
    /\ day = 0
    /\ timestamp = None
    /\ stopsTable = EmptyMap
    /\ routesTable = {}
    /\ inits = [p \in Callers |-> Idle]
    /\ txs = <<>>
    /\ fetches = 0

\* the state after construction: the service not initialized, the App loading,
\* the browser storage and the collection empty
\* nothing was looked up, no vehicle is selected, no trail is displayed
UiInit ==
    /\ found = None
    /\ searched = None
    /\ selectedVehicleId = None
    /\ historyPath = <<>>
    /\ reads = <<>>

\* the cron handler was not invoked
LoopInit == cronRun = None

Init == SvcInit /\ AppInit /\ CacheInit /\ HistInit /\ UiInit /\ LoopInit

\* initialize(): loads the stop index and the auxiliary maps
Initialize ==
    /\ ~isInitialized
    /\ \E c \in Catalogs :
          /\ tripToRouteMap' = c.tripMap
          /\ routeDirections' = c.routeDirs
          /\ stopsMap' = c.stops
    /\ isInitialized' = TRUE
    /\ UNCHANGED <<call, threw, liveVehicles>>
    /\ UNCHANGED <<appVars, cacheVars, histVars, uiVars, loopVars>>

\* what Returns must not be: the stop index is dropped once a call has used it
ReturnsForgetful(c) ==
    /\ call' = Some(c)
    /\ threw' = (c.variant = "simple" /\ GetLiveVehiclesSimpleThrows(c, tripToRouteMap))
    /\ liveVehicles' = ReturnOf(c, tripToRouteMap, routeDirections, stopsMap)
    /\ stopsMap' = EmptyMap
    /\ UNCHANGED <<isInitialized, tripToRouteMap, routeDirections>>
    /\ UNCHANGED <<appVars, cacheVars, histVars, uiVars, loopVars>>

\* getLiveVehicles(route) returns for the call c
Returns(c) ==
    /\ call' = Some(c)
    /\ threw' = (c.variant = "simple" /\ GetLiveVehiclesSimpleThrows(c, tripToRouteMap))
    /\ liveVehicles' = ReturnOf(c, tripToRouteMap, routeDirections, stopsMap)
    /\ UNCHANGED <<isInitialized, tripToRouteMap, routeDirections, stopsMap>>
    /\ UNCHANGED <<appVars, cacheVars, histVars, uiVars, loopVars>>

\* one poll tick with both feeds fetched and decoded: at most MaxFeed decoded
\* items in all
GetLiveVehicles ==
    /\ isInitialized
    /\ call = None
    /\ \E np \in 0..MaxFeed : \E nu \in 0..(MaxFeed - np) :
          \E ps \in PosFeeds[np] : \E us \in UpdFeeds[nu] :
             Returns(Call("full", "ok", "ok", ps, us, None))

\* one poll tick of the route view; the trip-update fetch failed, which
\* getLiveVehicles tolerates (.catch(() => null), updatesRes.ok false)
GetLiveVehiclesOfRoute ==
    /\ isInitialized
    /\ call = None
    /\ \E np \in 0..MaxFeed : \E ps \in PosFeeds[np] :
          \E r \in Routes \ {None} :
             Returns(Call("full", "ok", "unavailable", ps, <<>>, r))

\* one poll tick whose position fetch fails (non-OK response, network error),
\* is shorter than 20 bytes, or cannot be decoded; or whose trip updates cannot
\* be decoded
GetLiveVehiclesFails ==
    /\ isInitialized
    /\ call = None
    /\ \E k \in {<<"httpError", "ok">>, <<"networkError", "ok">>, <<"short", "ok">>,
              <<"malformed", "ok">>, <<"ok", "malformed">>} :
          Returns(Call("full", k[1], k[2], <<>>, <<>>, None))

\* one poll tick of services/slService.ts
GetLiveVehiclesSimple ==
    /\ isInitialized
    /\ call = None
    /\ \E r \in Routes :
          \/ \E np \in 0..MaxFeed : \E ps \in PosFeeds[np] :
                Returns(Call("simple", "ok", "none", ps, <<>>, r))
          \/ \E k \in {"httpError", "networkError", "short", "malformed"} :
                Returns(Call("simple", k, "none", <<>>, <<>>, r))

\* the next poll receives the same feeds and outcomes as the last one and
\* resolves them again
GetLiveVehiclesAgain ==
    /\ isInitialized
    /\ call # None
    /\ Get(call).poll = 1
    /\ Returns([Get(call) EXCEPT !.poll = 2])

\* the poll interval elapses: the tick's decoded entities and labelled vehicles
\* are dropped, the next tick builds its own
NextTick ==
    /\ call # None
    /\ call' = None
    /\ threw' = FALSE
    /\ liveVehicles' = <<>>
    /\ UNCHANGED <<isInitialized, tripToRouteMap, routeDirections, stopsMap>>
    /\ UNCHANGED <<appVars, cacheVars, histVars, uiVars, loopVars>>

ResolverNext ==
    \/ Initialize
    \/ GetLiveVehicles
    \/ GetLiveVehiclesOfRoute
    \/ GetLiveVehiclesFails
    \/ GetLiveVehiclesSimple
    \/ GetLiveVehiclesAgain
    \/ NextTick
ResolverSpec == Init /\ [][ResolverNext]_vars

--------------------------------------------------------------------------
(* The history store: the collection vehicle_trails and its two writers *)

MaxTime  == 3   \* the clock stops here
MaxTrail == 2   \* trail points stored or about to be written, in all
MaxBatch == 2   \* vehicles per feed (cron) or request body (ingest)

CronWindow   == 1   \* expireTime = now + 2 * 60 * 60 * 1000, cron.ts
IngestWindow == 2   \* expireTime = now + 4 * 60 * 60 * 1000, ingest.ts

\* decoded entities of the cron ingestion's feed (toObject with defaults: an
\* absent string is "", an absent message null)
CronEntity(t, r, pos) == [id |-> "e1", vehicle |-> TRUE, trip |-> TRUE, position |-> pos,
                          tripId |-> t, routeId |-> r]
CronEntities ==
    {CronEntity("t1", "rP", TRUE), CronEntity("t2", "rP", TRUE),
     CronEntity("t1", "rP", FALSE), CronEntity("", "rP", TRUE),
     [CronEntity("t1", "rP", TRUE) EXCEPT !.trip = FALSE]}

\* the vehicles of an ingest request body; tripId "" stands for a tripId that
\* is missing or not a string, lat and lng may be missing
IngestVehicle(t, lat, lng) == [tripId |-> t, line |-> "rP", id |-> "v1",
                               lat |-> lat, lng |-> lng]
IngestVehicles ==
    {IngestVehicle("t1", Some(59), Some(18)), IngestVehicle("t2", Some(59), Some(18)),
     IngestVehicle("t1", None, None), IngestVehicle("", Some(59), Some(18))}

\* one updateOne of a bulkWrite
UpdateOne(tripId, line, vehicleId, expireTime, now, lat, lng) ==
    [tripId |-> tripId, line |-> line, vehicleId |-> vehicleId,
     expireAt |-> expireTime, lastUpdate |-> now,
     point |-> [lat |-> lat, lng |-> lng, ts |-> now]]

\* cron.ts: validVehicles mapped to ops, in feed order
RECURSIVE CronOps(_, _)
CronOps(entities, now) ==
    IF entities = <<>> THEN <<>>
    ELSE LET e    == Head(entities)
             rest == CronOps(Tail(entities), now)
         IN  IF e.vehicle /\ e.trip /\ e.tripId # "" /\ e.position
             THEN <<UpdateOne(e.tripId, e.routeId, e.id, now + CronWindow, now,
                              Some(59), Some(18))>> \o rest
             ELSE rest

\* ingest.ts: validVehicles mapped to ops, in body order
RECURSIVE IngestOps(_, _)
IngestOps(validVehicles, now) ==
    IF validVehicles = <<>> THEN <<>>
    ELSE LET v    == Head(validVehicles)
             rest == IngestOps(Tail(validVehicles), now)
         IN  IF v.tripId # ""
             THEN <<UpdateOne(v.tripId, v.line, v.id, now + IngestWindow, now,
                              v.lat, v.lng)>> \o rest
             ELSE rest

\* the ops either writer may build at each time, over every feed and every
\* request body of at most MaxBatch vehicles
CronFeeds    == UNION {SeqsOfLen(CronEntities, n) : n \in 0..MaxBatch}
IngestBodies == UNION {SeqsOfLen(IngestVehicles, n) : n \in 0..MaxBatch}
CronOpsAt    == [now \in 0..MaxTime |-> {CronOps(entities, now) : entities \in CronFeeds}]
IngestOpsAt  == [now \in 0..MaxTime |-> {IngestOps(body, now) : body \in IngestBodies}]

\* the documents of the collection that match { tripId: tripId }
Matching(trails, tripId) == {i \in 1..Len(trails) : trails[i].tripId = tripId}
FirstOf(S) == CHOOSE i \in S : \A j \in S : i <= j

\* what Upsert must not be: the write is an insert
UpsertAsInsert(trails, op) ==
    Append(trails, [tripId |-> op.tripId, line |-> op.line, vehicleId |-> op.vehicleId,
                    expireAt |-> op.expireAt, lastUpdate |-> op.lastUpdate,
                    trail |-> <<op.point>>])

\* what Upsert must not be: the trail is $set to the new point, not $push-ed
UpsertSetsTrail(trails, op) ==
    IF Matching(trails, op.tripId) = {}
    THEN UpsertAsInsert(trails, op)
    ELSE [trails EXCEPT ![FirstOf(Matching(trails, op.tripId))] =
             [@ EXCEPT !.line = op.line, !.vehicleId = op.vehicleId,
                       !.expireAt = op.expireAt, !.lastUpdate = op.lastUpdate,
                       !.trail = <<op.point>>]]

\* updateOne({tripId}, {$set: {line, vehicleId, expireAt, lastUpdate},
\*                      $push: {trail: point}}, {upsert: true})
Upsert(trails, op) ==
    IF Matching(trails, op.tripId) = {}
    THEN Append(trails, [tripId |-> op.tripId, line |-> op.line, vehicleId |-> op.vehicleId,
                         expireAt |-> op.expireAt, lastUpdate |-> op.lastUpdate,
                         trail |-> <<op.point>>])
    ELSE [trails EXCEPT ![FirstOf(Matching(trails, op.tripId))] =
             [@ EXCEPT !.line = op.line, !.vehicleId = op.vehicleId,
                       !.expireAt = op.expireAt, !.lastUpdate = op.lastUpdate,
                       !.trail = Append(@, op.point)]]

RemoveAt(seq, i) == SubSeq(seq, 1, i - 1) \o SubSeq(seq, i + 1, Len(seq))

\* a stable sort by ts ascending: Array.prototype.sort((a, b) => a.ts - b.ts)
RECURSIVE InsertByTs(_, _)
InsertByTs(sorted, p) ==
    IF sorted = <<>> THEN <<p>>
    ELSE IF Head(sorted).ts <= p.ts THEN <<Head(sorted)>> \o InsertByTs(Tail(sorted), p)
    ELSE <<p>> \o sorted
RECURSIVE SortByTs(_)
SortByTs(trail) ==
    IF trail = <<>> THEN <<>>
    ELSE InsertByTs(SortByTs(SubSeq(trail, 1, Len(trail) - 1)), trail[Len(trail)])

\* what HistoryPath must not be: the trail is returned in stored order
HistoryPathUnsorted(trails, tripId) ==
    IF Matching(trails, tripId) = {} THEN <<>>
    ELSE trails[FirstOf(Matching(trails, tripId))].trail

\* the history endpoint: findOne({tripId}), then the trail sorted by ts
HistoryPath(trails, tripId) ==
    IF Matching(trails, tripId) = {} THEN <<>>
    ELSE SortByTs(trails[FirstOf(Matching(trails, tripId))].trail)

\* trail points stored, and those a writer in progress is still to write
RECURSIVE StoredPoints(_)
StoredPoints(trails) ==
    IF trails = <<>> THEN 0 ELSE Len(Head(trails).trail) + StoredPoints(Tail(trails))
PendingPoints(w) == IF w = None THEN 0 ELSE Len(Get(w).pending)
Room == MaxTrail - StoredPoints(vehicle_trails) - PendingPoints(cron) - PendingPoints(ingest)

\* a writer between its Date.now() and the end of its bulkWrite
Writer(now, ops) == Some([now |-> now, pending |-> ops, count |-> Len(ops),
                          modified |-> 0, upserted |-> 0, refused |-> FALSE])

\* whether the TTL index { expireAt: 1 }, expireAfterSeconds: 0 lets the store
\* delete the document
Expired(doc) == doc.expireAt < clock
Live(doc)    == ~Expired(doc)

\* whether a writer's bulkWrite began in the current unit of time
Recent(w) == IF w = None THEN TRUE ELSE Get(w).now = clock

\* A unit of time passes.  A unit is long against a bulkWrite and against the
\* period of the store's TTL monitor: a bulkWrite is over before the end of
\* the unit after the one it began in, and a document is deleted before the
\* end of the unit in which it expired.
Tick ==
    /\ res = None
    /\ clock < MaxTime
    /\ Recent(cron)
    /\ Recent(ingest)
    /\ \A i \in 1..Len(vehicle_trails) : Live(vehicle_trails[i])
    /\ clock' = clock + 1
    /\ res' = None
    /\ UNCHANGED <<vehicle_trails, appended, cron, ingest>>
    /\ UNCHANGED <<svcVars, appVars, cacheVars, uiVars, loopVars>>

\* cron.ts fetchAndSaveData up to the bulkWrite: the feed is decoded, now and
\* expireTime are taken, the ops are built
CronFetch ==
    /\ res = None
    /\ cron = None
    /\ \E ops \in CronOpsAt[clock] :
              /\ Len(ops) <= Room
              /\ IF ops = <<>>
                 THEN /\ cron' = None
                      /\ res' = [kind |-> "cron", saved |-> 0, modified |-> 0,
                                 upserted |-> 0, error |-> FALSE]
                 ELSE /\ cron' = Writer(clock, ops)
                      /\ res' = None
    /\ UNCHANGED <<clock, vehicle_trails, appended, ingest>>
    /\ UNCHANGED <<svcVars, appVars, cacheVars, uiVars, loopVars>>

\* cron.ts fetchAndSaveData when the upstream feed answers with an error
\* status: it throws, nothing is written
CronUpstreamFails ==
    /\ res = None
    /\ cron = None
    /\ res' = [kind |-> "cron", saved |-> 0, modified |-> 0, upserted |-> 0,
               error |-> TRUE]
    /\ UNCHANGED <<clock, vehicle_trails, appended, cron, ingest>>
    /\ UNCHANGED <<svcVars, appVars, cacheVars, uiVars, loopVars>>

\* one updateOne of a writer w (cron or ingest) reaches the collection; the
\* bulkWrite is unordered, so any pending one may be next
WriteOne(w, i) ==
    LET op      == Get(w).pending[i]
        existed == Matching(vehicle_trails, op.tripId) # {}
    IN  [Get(w) EXCEPT !.pending  = RemoveAt(@, i),
                       !.modified = IF existed THEN @ + 1 ELSE @,
                       !.upserted = IF existed THEN @ ELSE @ + 1]

CronWrite ==
    /\ res = None
    /\ cron # None
    /\ \E i \in 1..Len(Get(cron).pending) :
          /\ cron' = Some(WriteOne(cron, i))
          /\ vehicle_trails' = Upsert(vehicle_trails, Get(cron).pending[i])
          /\ appended' = [appended EXCEPT ![Get(cron).pending[i].tripId] = Some(clock)]
    /\ res' = None
    /\ UNCHANGED <<clock, ingest>>
    /\ UNCHANGED <<svcVars, appVars, cacheVars, uiVars, loopVars>>

\* one updateOne of a writer w is refused by the store (a write error): the
\* unordered bulkWrite goes on with the others
RefuseOne(w, i) ==
    [Get(w) EXCEPT !.pending = RemoveAt(@, i), !.refused = TRUE]

CronWriteRefused ==
    /\ res = None
    /\ cron # None
    /\ \E i \in 1..Len(Get(cron).pending) :
          cron' = Some(RefuseOne(cron, i))
    /\ res' = None
    /\ UNCHANGED <<clock, vehicle_trails, appended, ingest>>
    /\ UNCHANGED <<svcVars, appVars, cacheVars, uiVars, loopVars>>

\* the bulkWrite of cron.ts is over: it returns its result, or rejects when
\* some updateOne was refused, and the iteration is recorded as an error
CronDone ==
    /\ res = None
    /\ cron # None
    /\ Get(cron).pending = <<>>
    /\ res' = IF Get(cron).refused
              THEN [kind |-> "cron", saved |-> 0, modified |-> 0, upserted |-> 0,
                    error |-> TRUE]
              ELSE [kind |-> "cron", saved |-> Get(cron).count,
                    modified |-> Get(cron).modified, upserted |-> Get(cron).upserted,
                    error |-> FALSE]
    /\ cron' = None
    /\ UNCHANGED <<clock, vehicle_trails, appended, ingest>>
    /\ UNCHANGED <<svcVars, appVars, cacheVars, uiVars, loopVars>>

\* the bulkWrite of cron.ts throws with writes still to do: they are lost, the
\* iteration is recorded as an error
CronFail ==
    /\ res = None
    /\ cron # None
    /\ Get(cron).pending # <<>>
    /\ res' = [kind |-> "cron", saved |-> 0, modified |-> 0, upserted |-> 0,
               error |-> TRUE]
    /\ cron' = None
    /\ UNCHANGED <<clock, vehicle_trails, appended, ingest>>
    /\ UNCHANGED <<svcVars, appVars, cacheVars, uiVars, loopVars>>

\* ingest.ts handler up to the bulkWrite
IngestPost ==
    /\ res = None
    /\ ingest = None
    /\ \E ops \in IngestOpsAt[clock] :
              /\ Len(ops) <= Room
              /\ IF ops = <<>>
                 THEN /\ ingest' = None
                      /\ res' = [kind |-> "ingest", status |-> 200, count |-> 0,
                                 modified |-> 0, upserted |-> 0]
                 ELSE /\ ingest' = Writer(clock, ops)
                      /\ res' = None
    /\ UNCHANGED <<clock, vehicle_trails, appended, cron>>
    /\ UNCHANGED <<svcVars, appVars, cacheVars, uiVars, loopVars>>

IngestWrite ==
    /\ res = None
    /\ ingest # None
    /\ \E i \in 1..Len(Get(ingest).pending) :
          /\ ingest' = Some(WriteOne(ingest, i))
          /\ vehicle_trails' = Upsert(vehicle_trails, Get(ingest).pending[i])
          /\ appended' = [appended EXCEPT ![Get(ingest).pending[i].tripId] = Some(clock)]
    /\ res' = None
    /\ UNCHANGED <<clock, cron>>
    /\ UNCHANGED <<svcVars, appVars, cacheVars, uiVars, loopVars>>

IngestWriteRefused ==
    /\ res = None
    /\ ingest # None
    /\ \E i \in 1..Len(Get(ingest).pending) :
          ingest' = Some(RefuseOne(ingest, i))
    /\ res' = None
    /\ UNCHANGED <<clock, vehicle_trails, appended, cron>>
    /\ UNCHANGED <<svcVars, appVars, cacheVars, uiVars, loopVars>>

\* the bulkWrite of ingest.ts is over: 200 with the counts, or, when some
\* updateOne was refused, it rejects and the catch branch answers 500
IngestDone ==
    /\ res = None
    /\ ingest # None
    /\ Get(ingest).pending = <<>>
    /\ res' = IF Get(ingest).refused
              THEN [kind |-> "ingest", status |-> 500, count |-> 0,
                    modified |-> 0, upserted |-> 0]
              ELSE [kind |-> "ingest", status |-> 200, count |-> Get(ingest).count,
                    modified |-> Get(ingest).modified, upserted |-> Get(ingest).upserted]
    /\ ingest' = None
    /\ UNCHANGED <<clock, vehicle_trails, appended, cron>>
    /\ UNCHANGED <<svcVars, appVars, cacheVars, uiVars, loopVars>>

\* the bulkWrite of ingest.ts throws with writes still to do: 500
IngestFail ==
    /\ res = None
    /\ ingest # None
    /\ Get(ingest).pending # <<>>
    /\ res' = [kind |-> "ingest", status |-> 500, count |-> 0,
               modified |-> 0, upserted |-> 0]
    /\ ingest' = None
    /\ UNCHANGED <<clock, vehicle_trails, appended, cron>>
    /\ UNCHANGED <<svcVars, appVars, cacheVars, uiVars, loopVars>>

\* a response of the history endpoint; caught says that the catch branch sent
\* it (the body does not tell)
HistoryResponse(tripId, status, path, caught) ==
    [kind |-> "history", tripId |-> tripId, status |-> status, path |-> path,
     caught |-> caught]

\* GET /api/history?tripId=
HistoryRead ==
    /\ res = None
    /\ \E tripId \in TripIds :
          res' = HistoryResponse(tripId, 200, HistoryPath(vehicle_trails, tripId), FALSE)
    /\ UNCHANGED <<clock, vehicle_trails, appended, cron, ingest>>
    /\ UNCHANGED <<svcVars, appVars, cacheVars, uiVars, loopVars>>

\* GET /api/history?tripId= when the store does not answer: the catch branch
\* sends an empty path
HistoryReadFails ==
    /\ res = None
    /\ \E tripId \in TripIds :
          res' = HistoryResponse(tripId, 200, <<>>, TRUE)
    /\ UNCHANGED <<clock, vehicle_trails, appended, cron, ingest>>
    /\ UNCHANGED <<svcVars, appVars, cacheVars, uiVars, loopVars>>

\* GET /api/history without a tripId: 400
HistoryBadRequest ==
    /\ res = None
    /\ res' = HistoryResponse("", 400, <<>>, FALSE)
    /\ UNCHANGED <<clock, vehicle_trails, appended, cron, ingest>>
    /\ UNCHANGED <<svcVars, appVars, cacheVars, uiVars, loopVars>>

\* a pass of the store's TTL monitor: the expired documents are deleted.  The
\* monitor is a background task of the store that runs periodically; a
\* document stays readable and writable from its expireAt until the next pass.
TTLPass ==
    /\ res = None
    /\ \E i \in 1..Len(vehicle_trails) : Expired(vehicle_trails[i])
    /\ vehicle_trails' = SelectSeq(vehicle_trails, Live)
    /\ appended' = [tripId \in TripIds |->
                       IF Matching(vehicle_trails', tripId) = {} THEN None
                       ELSE appended[tripId]]
    /\ res' = None
    /\ UNCHANGED <<clock, cron, ingest>>
    /\ UNCHANGED <<svcVars, appVars, cacheVars, uiVars, loopVars>>

\* the response of the step just taken has been sent; the handlers answer one
\* request at a time here, the writes of the two bulkWrites still interleave
Responded ==
    /\ res # None
    /\ res' = None
    /\ UNCHANGED <<clock, vehicle_trails, appended, cron, ingest>>
    /\ UNCHANGED <<svcVars, appVars, cacheVars, uiVars, loopVars>>

HistoryNext ==
    \/ Tick
    \/ CronFetch
    \/ CronUpstreamFails
    \/ CronWrite
    \/ CronWriteRefused
    \/ CronDone
    \/ CronFail
    \/ IngestPost
    \/ IngestWrite
    \/ IngestWriteRefused
    \/ IngestDone
    \/ IngestFail
    \/ HistoryRead
    \/ HistoryReadFails
    \/ HistoryBadRequest
    \/ TTLPass
    \/ Responded
HistorySpec == Init /\ [][HistoryNext]_vars

--------------------------------------------------------------------------
(* The App: the live update loop and the visible-vehicle filter.            *)
(* unnamed/part_002 polls getLiveVehicles(null) of unnamed/part_005 and     *)
(* filters by the map bounds; App.tsx polls getLiveVehicles(activeRoute) of *)
(* services/slService.ts while a route is selected.                         *)

MaxReads == 2   \* getVehicleHistory calls in flight at a time
MaxTicks == 2   \* fetchLive calls per session

\* the position feeds a poll tick may receive
PollFeeds == {<<>>,
              <<PosOk("t1", "rP", Some(0))>>,
              <<PosOk("t1", "", None), PosOk("t2", "rP", None)>>}

\* the getLiveVehicles calls a fetchLive of the App a may make
PollCalls(a, route) ==
    IF a = "full"
    THEN {Call("full", "ok", "unavailable", ps, <<>>, None) : ps \in PollFeeds}
         \cup {Call("full", k, "ok", <<>>, <<>>, None) :
                  k \in {"httpError", "networkError", "malformed"}}
    ELSE {Call("simple", "ok", "none", ps, <<>>, route) : ps \in PollFeeds}
         \cup {Call("simple", k, "none", <<>>, <<>>, route) :
                  k \in {"httpError", "networkError", "malformed"}}

\* how await slService.getLiveVehicles(..) ends for the call c: rejected, or
\* resolved with data
FetchLiveOutcome(c) ==
    [threw |-> c.variant = "simple" /\ GetLiveVehiclesSimpleThrows(c, tripToRouteMap),
     data  |-> ReturnOf(c, tripToRouteMap, routeDirections, stopsMap)]

\* what AfterFetchLive must not be: the result is added to what is displayed
AfterFetchLiveMerged(shown, out) ==
    IF out.threw THEN [vehicles |-> shown, liveStatus |-> "error"]
    ELSE [vehicles |-> shown \o out.data, liveStatus |-> "ok"]

\* fetchLive after its await: setVehicles(data) and setLiveStatus('ok'), or the
\* catch block's setLiveStatus('error')
AfterFetchLive(shown, out) ==
    IF out.threw THEN [vehicles |-> shown, liveStatus |-> "error"]
    ELSE [vehicles |-> out.data, liveStatus |-> "ok"]

\* fetchLive is called: the call c is in flight
StartTick(c) ==
    /\ ticks' = Append(ticks, [n |-> started + 1, c |-> c])
    /\ started' = started + 1

\* whether the interval of the live update effect is set
Polling == ~loading /\ (app = "full" \/ (app = "simple" /\ activeRoute # None))

\* the init effect ends with setLoading(false); the live update effect runs:
\* part_002 calls fetchLive at once, App.tsx has no route yet and clears the set
AppReady ==
    /\ isInitialized
    /\ loading
    /\ app = ""
    /\ started < MaxTicks
    /\ loading' = FALSE
    /\ \/ /\ app' = "full"
          /\ \E c \in PollCalls("full", None) : StartTick(c)
       \/ /\ app' = "simple"
          /\ UNCHANGED <<ticks, started>>
    /\ vehicles' = <<>>
    /\ done' = <<>>
    /\ UNCHANGED <<liveStatus, activeRoute, showAllVehicles, visibleBounds>>
    /\ UNCHANGED <<svcVars, cacheVars, histVars, uiVars, loopVars>>

\* the interval fires: fetchLive is called again, whether or not the earlier
\* calls have completed
FetchLive ==
    /\ Polling
    /\ started < MaxTicks
    /\ \E c \in PollCalls(app, activeRoute) : StartTick(c)
    /\ UNCHANGED <<loading, app, vehicles, liveStatus, activeRoute, showAllVehicles,
                   visibleBounds, done>>
    /\ UNCHANGED <<svcVars, cacheVars, histVars, uiVars, loopVars>>

\* getVehicleHistory(tripId) is called: the read is in flight
StartRead(tripId) ==
    /\ Len(reads) < MaxReads
    /\ reads' = Append(reads, tripId)

\* the history effect of part_002, run when selectedVehicleId or vehicles
\* changed: with nothing selected the trail is cleared; otherwise the history
\* of the selected vehicle's trip is read when the vehicle is among the
\* displayed ones
HistoryEffect(selected, shown) ==
    IF selected = None
    THEN /\ historyPath' = <<>>
         /\ UNCHANGED reads
    ELSE /\ UNCHANGED historyPath
         /\ LET Selected(v) == v.id = Get(selected)
            IN  IF SelectSeq(shown, Selected) # <<>>
                THEN StartRead(SelectSeq(shown, Selected)[1].tripId)
                ELSE UNCHANGED reads

\* a fetchLive in flight completes, in any order; setVehicles(data) makes the
\* history effect of part_002 run again
FetchLiveDone ==
    /\ \E i \in 1..Len(ticks) :
          LET t     == ticks[i]
              out   == FetchLiveOutcome(t.c)
              after == AfterFetchLive(vehicles, out)
          IN  /\ vehicles' = after.vehicles
              /\ liveStatus' = after.liveStatus
              /\ ticks' = RemoveAt(ticks, i)
              /\ done' = Append(done, t)
              /\ IF app = "full" /\ ~out.threw
                 THEN HistoryEffect(selectedVehicleId, after.vehicles)
                 ELSE UNCHANGED <<historyPath, reads>>
    /\ UNCHANGED <<loading, app, activeRoute, showAllVehicles, visibleBounds, started>>
    /\ UNCHANGED <<found, searched, selectedVehicleId>>
    /\ UNCHANGED <<svcVars, cacheVars, histVars, loopVars>>

\* part_002 handleSearchSelect of a line: the selection and the trail are
\* dropped and the route is selected; the live update loop does not depend on it
SelectRoute ==
    /\ ~loading
    /\ app = "full"
    /\ \E r \in Routes \ {None} : activeRoute' = r
    /\ selectedVehicleId' = None
    /\ historyPath' = <<>>
    /\ UNCHANGED <<loading, app, vehicles, liveStatus, showAllVehicles, visibleBounds,
                   ticks, started, done>>
    /\ UNCHANGED <<found, searched, reads>>
    /\ UNCHANGED <<svcVars, cacheVars, histVars, loopVars>>

\* App.tsx handleSearchSelect of a line, up to its await: setLoading(true),
\* setLiveStatus('loading'); the live update effect clears its interval and
\* the displayed set
SelectLine ==
    /\ ~loading
    /\ app = "simple"
    /\ loading' = TRUE
    /\ liveStatus' = "loading"
    /\ vehicles' = <<>>
    /\ done' = <<>>
    /\ UNCHANGED <<app, activeRoute, showAllVehicles, visibleBounds, ticks, started>>
    /\ UNCHANGED <<svcVars, cacheVars, histVars, uiVars, loopVars>>

\* App.tsx handleSearchSelect after getLineRoute: setActiveRoute(route) when
\* the route was found, setLoading(false); the live update effect calls
\* fetchLive when a route is active and clears the displayed set otherwise
LineLoaded ==
    /\ loading
    /\ app = "simple"
    /\ started < MaxTicks
    /\ loading' = FALSE
    /\ \E r \in Routes :
          /\ activeRoute' = IF r = None THEN activeRoute ELSE r
          /\ IF activeRoute' # None
             THEN /\ \E c \in PollCalls("simple", activeRoute') : StartTick(c)
                  /\ UNCHANGED <<vehicles, done>>
             ELSE /\ vehicles' = <<>>
                  /\ done' = <<>>
                  /\ UNCHANGED <<ticks, started>>
    /\ UNCHANGED <<app, liveStatus, showAllVehicles, visibleBounds>>
    /\ UNCHANGED <<svcVars, cacheVars, histVars, uiVars, loopVars>>

\* handleClear: part_002 drops the route, the selection and the trail; App.tsx
\* also clears the displayed set and the status, and its effect clears the
\* interval
HandleClear ==
    /\ ~loading
    /\ app # ""
    /\ activeRoute' = None
    /\ IF app = "simple"
       THEN /\ vehicles' = <<>>
            /\ liveStatus' = "loading"
            /\ done' = <<>>
       ELSE UNCHANGED <<vehicles, liveStatus, done>>
    /\ selectedVehicleId' = None
    /\ historyPath' = <<>>
    /\ UNCHANGED <<loading, app, showAllVehicles, visibleBounds, ticks, started>>
    /\ UNCHANGED <<found, searched, reads>>
    /\ UNCHANGED <<svcVars, cacheVars, histVars, loopVars>>

\* the map boxes MapBoundsReporter may report: south, west, north, east
Boxes == {[s |-> 0, w |-> 0, n |-> 4, e |-> 4],
          [s |-> 4, w |-> 0, n |-> 8, e |-> 4],
          [s |-> 8, w |-> 0, n |-> 12, e |-> 4]}

\* MapBoundsReporter: on mount, moveend and zoomend, setVisibleBounds(map.getBounds())
SetVisibleBounds ==
    /\ ~loading
    /\ app = "full"
    /\ \E b \in Boxes : visibleBounds' = Some(b)
    /\ UNCHANGED <<loading, app, vehicles, liveStatus, activeRoute, showAllVehicles,
                   ticks, started, done>>
    /\ UNCHANGED <<svcVars, cacheVars, histVars, uiVars, loopVars>>

\* the "show all" checkbox: setShowAllVehicles(e.target.checked)
SetShowAllVehicles ==
    /\ ~loading
    /\ app = "full"
    /\ showAllVehicles' = ~showAllVehicles
    /\ UNCHANGED <<loading, app, vehicles, liveStatus, activeRoute, visibleBounds,
                   ticks, started, done>>
    /\ UNCHANGED <<svcVars, cacheVars, histVars, uiVars, loopVars>>

\* SLVehicle.lat, SLVehicle.lng: where the vehicle of each trip of the feeds is
LatLng == [t \in TripIds |-> IF t = "t1" THEN [lat |-> 2, lng |-> 2]
                                         ELSE [lat |-> 11, lng |-> 2]]

\* LatLngBounds.pad(0.5): each side moves out by half the box's extent
Pad(b) == LET heightBuffer == (b.n - b.s) \div 2
              widthBuffer  == (b.e - b.w) \div 2
          IN  [s |-> b.s - heightBuffer, w |-> b.w - widthBuffer,
               n |-> b.n + heightBuffer, e |-> b.e + widthBuffer]

\* LatLngBounds.contains(latlng): the sides belong to the box
Contains(b, p) == p.lat >= b.s /\ p.lat <= b.n /\ p.lng >= b.w /\ p.lng <= b.e

\* what VisibleVehicles must not be: without bounds nothing is filtered out
VisibleVehiclesUnbounded(shown, bounds, route, showAll) ==
    LET OfRoute(v) == v.line = Get(route).id \/ v.tripId \in Get(route).trip_ids
        Inside(v)  == Contains(Pad(Get(bounds)), LatLng[v.tripId])
        filtered   == IF route # None /\ ~showAll THEN SelectSeq(shown, OfRoute) ELSE shown
    IN  IF route = None /\ ~showAll THEN <<>>
        ELSE IF bounds = None THEN filtered
        ELSE SelectSeq(filtered, Inside)

\* App.visibleVehicles, the useMemo over vehicles, visibleBounds, activeRoute
\* and showAllVehicles
VisibleVehicles(shown, bounds, route, showAll) ==
    LET OfRoute(v) == v.line = Get(route).id \/ v.tripId \in Get(route).trip_ids
        Inside(v)  == Contains(Pad(Get(bounds)), LatLng[v.tripId])
        filtered   == IF route # None /\ ~showAll THEN SelectSeq(shown, OfRoute) ELSE shown
    IN  IF route = None /\ ~showAll THEN <<>>
        ELSE IF bounds = None THEN <<>>
        ELSE SelectSeq(filtered, Inside)

\* the vehicles the map renders
visibleVehicles == VisibleVehicles(vehicles, visibleBounds, activeRoute, showAllVehicles)

\* getVehicleHistory(tripId) answers with the stored trail of the trip, which
\* lies where the trip's vehicle is, or with [] (no record, a response that is
\* not ok, a failed fetch)
TrailOf(tripId) == <<[lat |-> LatLng[tripId].lat, lng |-> LatLng[tripId].lng, ts |-> 0]>>
PathsOf(tripId) == {<<>>, TrailOf(tripId)}

\* a vehicle marker is clicked (onSelect): the history effect runs for the
\* new selection
SelectVehicle ==
    /\ ~loading
    /\ app = "full"
    /\ \E k \in 1..Len(visibleVehicles) :
          /\ selectedVehicleId # Some(visibleVehicles[k].id)
          /\ selectedVehicleId' = Some(visibleVehicles[k].id)
          /\ HistoryEffect(Some(visibleVehicles[k].id), vehicles)
    /\ UNCHANGED <<found, searched>>
    /\ UNCHANGED <<svcVars, appVars, cacheVars, histVars, loopVars>>

\* the selected vehicle's popup is closed (onDeselect)
DeselectVehicle ==
    /\ selectedVehicleId # None
    /\ selectedVehicleId' = None
    /\ historyPath' = <<>>
    /\ UNCHANGED <<found, searched, reads>>
    /\ UNCHANGED <<svcVars, appVars, cacheVars, histVars, loopVars>>

\* a getVehicleHistory call in flight resolves, in any order: .then(path =>
\* setHistoryPath(path))
HistoryLoaded ==
    /\ \E i \in 1..Len(reads) : \E path \in PathsOf(reads[i]) :
          /\ historyPath' = path
          /\ reads' = RemoveAt(reads, i)
    /\ UNCHANGED <<found, searched, selectedVehicleId>>
    /\ UNCHANGED <<svcVars, appVars, cacheVars, histVars, loopVars>>

PollNext ==
    \/ Initialize
    \/ AppReady
    \/ FetchLive
    \/ FetchLiveDone
    \/ SelectRoute
    \/ SelectLine
    \/ LineLoaded
    \/ HandleClear
    \/ SetVisibleBounds
    \/ SetShowAllVehicles
PollSpec == Init /\ [][PollNext]_vars

\* the map of part_002 with its vehicle markers and the history trail
TrailNext ==
    \/ Initialize
    \/ AppReady
    \/ FetchLive
    \/ FetchLiveDone
    \/ HandleClear
    \/ SetVisibleBounds
    \/ SetShowAllVehicles
    \/ SelectVehicle
    \/ DeselectVehicle
    \/ HistoryLoaded
TrailSpec == Init /\ [][TrailNext]_vars

--------------------------------------------------------------------------
(* SLService.initialize and the static cache: the timestamp in localStorage *)
(* and the object stores "stops" and "routes".  Every await of initialize   *)
(* is a step of its caller, so that calls may overlap.                      *)

MaxDay == 8           \* the clock of the static cache stops here

CACHE_DURATION == 7   \* 1000 * 60 * 60 * 24 * 7 ms, in days

\* the static extracts the server may hold: stops.json and manifest.json
Extracts == {[stops |-> [x \in {"s1"} |-> "S1"], routes |-> {"rP"}],
             [stops |-> [x \in {"s1", "s2"} |-> "S2"], routes |-> {"rP", "rM"}]}

\* how the two fetches of loadStaticDataFromFiles may fail before anything is
\* written: a rejected fetch, a non-OK response, a content type that is not
\* JSON, a stops.json that is not an array
FetchFailures == {"networkError", "notOk", "notJson", "badStops"}

\* stopsMap.set(s.id, s.name) for every stop of t
MapMerge(m, t) == [x \in (DOMAIN m) \cup (DOMAIN t) |-> IF x \in DOMAIN t THEN t[x] ELSE m[x]]

\* what IsStale must not be: a timestamp of exactly the cache duration is stale
IsStaleAtDuration(lastUpdate, now) ==
    lastUpdate = None \/ (now - Get(lastUpdate)) >= CACHE_DURATION

\* !lastUpdate || (now - parseInt(lastUpdate)) > CACHE_DURATION
IsStale(lastUpdate, now) ==
    lastUpdate = None \/ (now - Get(lastUpdate)) > CACHE_DURATION

\* the caller whose initialize() stood at c is past loadStaticDataFromFiles,
\* which ended as refresh says, or past loadStopsFromDB ("none"), and awaits
\* loadAuxiliaryMaps
Ended(c, refresh) == [pc |-> "aux", refresh |-> refresh, lastUpdate |-> c.lastUpdate]

\* initialize() is called by p on a service that is not initialized: it
\* awaits getDB()
InitializeCalled ==
    /\ ~isInitialized
    /\ \E p \in Callers :
          /\ inits[p].pc = "idle"
          /\ inits' = [inits EXCEPT ![p] = [pc |-> "getDB"]]
    /\ UNCHANGED <<day, timestamp, stopsTable, routesTable, txs, fetches>>
    /\ UNCHANGED <<svcVars, appVars, histVars, uiVars, loopVars>>

\* initialize() is called on an initialized service: it returns at once
InitializeReturns ==
    /\ isInitialized
    /\ \E p \in Callers : inits[p].pc = "idle"
    /\ UNCHANGED vars

\* getDB() resolved: the timestamp is read and compared; a stale cache starts
\* loadStaticDataFromFiles, which issues its two fetches, a fresh one starts
\* loadStopsFromDB
GotDB ==
    /\ \E p \in Callers :
          /\ inits[p].pc = "getDB"
          /\ LET lastUpdate == timestamp
                 now        == day
             IN  IF IsStale(lastUpdate, now)
                 THEN /\ inits' = [inits EXCEPT ![p] = [pc |-> "fetch", lastUpdate |-> lastUpdate]]
                      /\ fetches' = fetches + 1
                 ELSE /\ inits' = [inits EXCEPT ![p] = [pc |-> "stops", lastUpdate |-> lastUpdate]]
                      /\ fetches' = fetches
    /\ UNCHANGED <<day, timestamp, stopsTable, routesTable, txs>>
    /\ UNCHANGED <<svcVars, appVars, histVars, uiVars, loopVars>>

\* a readwrite transaction over both stores as loadStaticDataFromFiles fills
\* it: clear, clear, a put per stop and, when manifest.forEach did not throw,
\* a put per route; waiter is the caller awaiting it, 0 when nobody does
Transaction(waiter, stops, routes) == [waiter |-> waiter, stops |-> stops, routes |-> routes]

\* the two fetches of loadStaticDataFromFiles failed, or stops.json is not an
\* array: the catch block, nothing was written
StaticFetchFails ==
    /\ \E p \in Callers :
          /\ inits[p].pc = "fetch"
          /\ \E k \in FetchFailures : inits' = [inits EXCEPT ![p] = Ended(inits[p], k)]
    /\ UNCHANGED <<day, timestamp, stopsTable, routesTable, txs, fetches>>
    /\ UNCHANGED <<svcVars, appVars, histVars, uiVars, loopVars>>

\* both files arrived as JSON arrays: stopsMap is updated, the transaction is
\* opened and filled, and the caller awaits its completion
StaticFetched ==
    /\ \E p \in Callers : \E e \in Extracts :
          /\ inits[p].pc = "fetch"
          /\ stopsMap' = MapMerge(stopsMap, e.stops)
          /\ txs' = Append(txs, Transaction(p, e.stops, Some(e.routes)))
          /\ inits' = [inits EXCEPT ![p] = [pc |-> "tx", lastUpdate |-> inits[p].lastUpdate]]
    /\ UNCHANGED <<day, timestamp, stopsTable, routesTable, fetches>>
    /\ UNCHANGED <<isInitialized, tripToRouteMap, routeDirections, call, threw, liveVehicles>>
    /\ UNCHANGED <<appVars, histVars, uiVars, loopVars>>

\* both files arrived as JSON but manifest.json is not an array: stopsMap is
\* updated, the transaction is opened, both clears and the stop puts are
\* requested, manifest.forEach throws into the catch block; nobody awaits or
\* aborts the transaction
StaticFetchedBadManifest ==
    /\ \E p \in Callers : \E e \in Extracts :
          /\ inits[p].pc = "fetch"
          /\ stopsMap' = MapMerge(stopsMap, e.stops)
          /\ txs' = Append(txs, Transaction(0, e.stops, None))
          /\ inits' = [inits EXCEPT ![p] = Ended(inits[p], "badManifest")]
    /\ UNCHANGED <<day, timestamp, stopsTable, routesTable, fetches>>
    /\ UNCHANGED <<isInitialized, tripToRouteMap, routeDirections, call, threw, liveVehicles>>
    /\ UNCHANGED <<appVars, histVars, uiVars, loopVars>>

\* the oldest open transaction commits: its requests take effect together;
\* tx.oncomplete resolves the caller awaiting it, which sets the timestamp
TxComplete ==
    /\ txs # <<>>
    /\ LET tx == Head(txs)
       IN  /\ stopsTable' = tx.stops
           /\ routesTable' = IF tx.routes = None THEN {} ELSE Get(tx.routes)
           /\ IF tx.waiter \in Callers
              THEN /\ timestamp' = Some(day)
                   /\ inits' = [inits EXCEPT ![tx.waiter] = Ended(inits[tx.waiter], "ok")]
              ELSE UNCHANGED <<timestamp, inits>>
    /\ txs' = Tail(txs)
    /\ UNCHANGED <<day, fetches>>
    /\ UNCHANGED <<svcVars, appVars, histVars, uiVars, loopVars>>

\* a request of the oldest open transaction fails: the transaction aborts,
\* none of its requests takes effect, tx.onerror rejects the caller awaiting
\* it into the catch block
TxError ==
    /\ txs # <<>>
    /\ LET tx == Head(txs)
       IN  IF tx.waiter \in Callers
           THEN inits' = [inits EXCEPT ![tx.waiter] = Ended(inits[tx.waiter], "txError")]
           ELSE UNCHANGED inits
    /\ txs' = Tail(txs)
    /\ UNCHANGED <<day, timestamp, stopsTable, routesTable, fetches>>
    /\ UNCHANGED <<svcVars, appVars, histVars, uiVars, loopVars>>

\* loadStopsFromDB: getAll resolves and fills stopsMap, or fails and is ignored
StopsLoaded ==
    /\ \E p \in Callers :
          /\ inits[p].pc = "stops"
          /\ \/ stopsMap' = MapMerge(stopsMap, stopsTable)
             \/ stopsMap' = stopsMap
          /\ inits' = [inits EXCEPT ![p] = Ended(inits[p], "none")]
    /\ UNCHANGED <<day, timestamp, stopsTable, routesTable, txs, fetches>>
    /\ UNCHANGED <<isInitialized, tripToRouteMap, routeDirections, call, threw, liveVehicles>>
    /\ UNCHANGED <<appVars, histVars, uiVars, loopVars>>

\* loadAuxiliaryMaps ends, with whatever maps it could load, and initialize
\* sets isInitialized and returns
AuxLoaded ==
    /\ \E p \in Callers :
          /\ inits[p].pc = "aux"
          /\ inits' = [inits EXCEPT ![p] = Idle]
    /\ \E c \in Catalogs :
          /\ tripToRouteMap' = (IF c.tripMap = None THEN tripToRouteMap ELSE c.tripMap)
          /\ routeDirections' = (IF c.routeDirs = None THEN routeDirections ELSE c.routeDirs)
    /\ isInitialized' = TRUE
    /\ UNCHANGED <<day, timestamp, stopsTable, routesTable, txs, fetches>>
    /\ UNCHANGED <<stopsMap, call, threw, liveVehicles>>
    /\ UNCHANGED <<appVars, histVars, uiVars, loopVars>>

\* whether no initialize call and no transaction is under way
Quiet == txs = <<>> /\ \A p \in Callers : inits[p].pc = "idle"

\* a day passes
DayPasses ==
    /\ Quiet
    /\ day < MaxDay
    /\ day' = day + 1
    /\ UNCHANGED <<timestamp, stopsTable, routesTable, inits, txs, fetches>>
    /\ UNCHANGED <<svcVars, appVars, histVars, uiVars, loopVars>>

\* the page is loaded again: a new SLService over the same browser storage
Reload ==
    /\ Quiet
    /\ isInitialized
    /\ isInitialized' = FALSE
    /\ tripToRouteMap' = None
    /\ routeDirections' = None
    /\ stopsMap' = EmptyMap
    /\ fetches' = 0
    /\ UNCHANGED <<call, threw, liveVehicles>>
    /\ UNCHANGED <<day, timestamp, stopsTable, routesTable, inits, txs>>
    /\ UNCHANGED <<appVars, histVars, uiVars, loopVars>>

CacheNext ==
    \/ InitializeCalled
    \/ InitializeReturns
    \/ GotDB
    \/ StaticFetchFails
    \/ StaticFetched
    \/ StaticFetchedBadManifest
    \/ TxComplete
    \/ TxError
    \/ StopsLoaded
    \/ AuxLoaded
    \/ DayPasses
    \/ Reload
CacheSpec == Init /\ [][CacheNext]_vars

--------------------------------------------------------------------------
(* What the resolver claims speak of, stated on the decoded feed itself *)

\* the call whose result liveVehicles holds
TheCall     == Get(call)
PosOfCall   == TheCall.feed.posEntities
UpdOfCall   == TheCall.feed.updateEntities
Resolved    == call # None /\ TheCall.posRes = "ok" /\ TheCall.updatesRes # "malformed"
ResolvedFull == Resolved /\ TheCall.variant = "full"
Emitted     == {liveVehicles[k] : k \in 1..Len(liveVehicles)}

\* the position entity a vehicle was made from (a vehicle's id is its entity's)
EntityOf(v) == PosOfCall[v.id]

\* the trip update joined by tripId: the last update entity of the feed with a
\* trip descriptor and that tripId
JoinedUpdate(tripId) ==
    LET at == {i \in 1..Len(UpdOfCall) :
                  UpdOfCall[i].tripUpdate /\ UpdOfCall[i].tripId = tripId}
    IN  IF at = {} THEN None
        ELSE Some(UpdOfCall[CHOOSE i \in at : \A j \in at : j <= i])

\* the three sources of a route id, "" where the source has none
OwnRoute(e)    == e.routeId
UpdateRoute(e) == IF IsSome(JoinedUpdate(e.tripId))
                  THEN Get(JoinedUpdate(e.tripId)).routeId ELSE ""
StaticRoute(e) == IF IsSome(tripToRouteMap) /\ e.tripId \in DOMAIN Get(tripToRouteMap)
                  THEN Get(tripToRouteMap)[e.tripId].r ELSE ""

Droppable(e)   == ~e.vehicle \/ ~e.position \/ ~e.trip \/ e.tripId = ""

\* C1: every vehicle getLiveVehicles returns has a non-empty line, and a
\* position entity whose route id is absent from its own trip descriptor, from
\* the joined trip update and from the trip-map entry of its tripId is not
\* emitted.
C1_LineResolvedOrDropped ==
    Resolved =>
       /\ \A v \in Emitted : v.line # ""
       /\ \A i \in 1..Len(PosOfCall) :
             LET e == PosOfCall[i]
             IN  (OwnRoute(e) = "" /\ UpdateRoute(e) = "" /\ StaticRoute(e) = "")
                    => \A v \in Emitted : v.id # i

\* a well-formed entity with no route id in any source was dropped while
\* another entity of the same feed was emitted
C1_Witness ==
    /\ Resolved
    /\ Emitted # {}
    /\ \E i \in 1..Len(PosOfCall) :
          LET e == PosOfCall[i]
          IN  ~Droppable(e) /\ OwnRoute(e) = "" /\ UpdateRoute(e) = "" /\ StaticRoute(e) = ""

\* a returned vehicle without its id (the index of its entity in the feed)
Anonymous(vs) == [k \in 1..Len(vs) |-> [vs[k] EXCEPT !.id = 0]]
WellFormed(e) == ~Droppable(e)

\* C2: the output never contains a vehicle whose tripId is empty; an entity
\* without a tripId, a position or a trip descriptor is dropped, and the rest
\* of the output is what the feed without the dropped entities yields.
C2_NoEmptyTripId ==
    Resolved =>
       /\ \A v \in Emitted : v.tripId # "" /\ ~Droppable(EntityOf(v))
       /\ Anonymous(liveVehicles) =
             Anonymous(ReturnOf(
                 [TheCall EXCEPT !.feed.posEntities = SelectSeq(PosOfCall, WellFormed)],
                 tripToRouteMap, routeDirections, stopsMap))

\* a feed with an entity without tripId ahead of an entity that is emitted
C2_Witness ==
    /\ Resolved
    /\ \E i, j \in 1..Len(PosOfCall) :
          /\ i < j
          /\ PosOfCall[i].trip /\ PosOfCall[i].tripId = ""
          /\ \E v \in Emitted : v.id = j

FirstNonEmpty(a, b, c) == IF a # "" THEN a ELSE IF b # "" THEN b ELSE c

\* C3: line is the first non-empty of the position's own route id, the joined
\* trip update's route id and the trip-map entry's route id.
C3_RoutePrecedence ==
    Resolved =>
       \A v \in Emitted :
          v.line = FirstNonEmpty(OwnRoute(EntityOf(v)), UpdateRoute(EntityOf(v)),
                                 StaticRoute(EntityOf(v)))

\* a vehicle for which the three sources name three different routes, and one
\* whose route comes from the trip map alone
C3_Witness ==
    /\ Resolved
    /\ \E v \in Emitted :
          /\ OwnRoute(EntityOf(v)) # ""
          /\ UpdateRoute(EntityOf(v)) \notin {"", OwnRoute(EntityOf(v))}
          /\ StaticRoute(EntityOf(v)) \notin {"", OwnRoute(EntityOf(v)), UpdateRoute(EntityOf(v))}

\* the four sources of a destination, "" where the source has none
StaticHeadsign(e) ==
    IF IsSome(tripToRouteMap) /\ e.tripId \in DOMAIN Get(tripToRouteMap)
    THEN Get(tripToRouteMap)[e.tripId].h ELSE ""
DirectionOf(e) ==
    IF IsSome(e.directionId) THEN e.directionId
    ELSE IF IsSome(JoinedUpdate(e.tripId)) THEN Get(JoinedUpdate(e.tripId)).directionId
    ELSE None
DirectionHeadsign(e, line) ==
    IF /\ IsSome(routeDirections)
       /\ IsSome(DirectionOf(e))
       /\ line \in DOMAIN Get(routeDirections)
       /\ DirStr(Get(DirectionOf(e))) \in DOMAIN Get(routeDirections)[line]
    THEN Get(routeDirections)[line][DirStr(Get(DirectionOf(e)))] ELSE ""
LastStopName(e) ==
    LET u == JoinedUpdate(e.tripId)
    IN  IF IsSome(u) /\ Len(Get(u).stopTimeUpdate) > 0
           /\ Get(u).stopTimeUpdate[Len(Get(u).stopTimeUpdate)].stopId \in DOMAIN stopsMap
        THEN stopsMap[Get(u).stopTimeUpdate[Len(Get(u).stopTimeUpdate)].stopId] ELSE ""
Usable(text) == text # "" /\ text # Unknown

\* C4: destination is the first non-empty, non-placeholder value of the
\* trip-map headsign, the route-direction entry of (line, directionId), the
\* name of the joined trip update's last stop, and "Okänd".
C4_DestinationPrecedence ==
    ResolvedFull =>
       \A v \in Emitted :
          LET e == EntityOf(v)
          IN  v.destination =
                 IF Usable(StaticHeadsign(e)) THEN StaticHeadsign(e)
                 ELSE IF Usable(DirectionHeadsign(e, v.line)) THEN DirectionHeadsign(e, v.line)
                 ELSE IF Usable(LastStopName(e)) THEN LastStopName(e)
                 ELSE Unknown

\* a vehicle named after its last stop although the trip map holds the
\* placeholder for it and the route-direction table has an entry for its
\* route, in a feed where a second vehicle takes the table's headsign
C4_Witness ==
    /\ ResolvedFull
    /\ \E v \in Emitted :
          /\ StaticHeadsign(EntityOf(v)) = Unknown
          /\ v.line \in DOMAIN Get(routeDirections)
          /\ LastStopName(EntityOf(v)) # ""
          /\ v.destination = LastStopName(EntityOf(v))
    /\ \E v \in Emitted :
          /\ Usable(DirectionHeadsign(EntityOf(v), v.line))
          /\ v.destination = DirectionHeadsign(EntityOf(v), v.line)

\* C5: delay is the arrival delay of the joined trip update's first stop-time
\* update when it has one, its departure delay otherwise; it is absent when no
\* trip update joins or the joined one has no stop-time update.
C5_DelayFromFirstStopTime ==
    ResolvedFull =>
       \A v \in Emitted :
          LET u == JoinedUpdate(v.tripId)
          IN  v.delay =
                 IF u = None THEN None
                 ELSE IF Len(Get(u).stopTimeUpdate) = 0 THEN None
                 ELSE IF IsSome(Get(u).stopTimeUpdate[1].arrival)
                      THEN Get(u).stopTimeUpdate[1].arrival
                      ELSE Get(u).stopTimeUpdate[1].departure

\* a vehicle whose joined update has two stop-time updates, the first with an
\* arrival delay of 0 and another departure delay, the last with other delays
C5_Witness ==
    /\ ResolvedFull
    /\ \E v \in Emitted :
          LET u == JoinedUpdate(v.tripId)
          IN  /\ IsSome(u)
              /\ Len(Get(u).stopTimeUpdate) = 2
              /\ Get(u).stopTimeUpdate[1].arrival = Some(0)
              /\ IsSome(Get(u).stopTimeUpdate[1].departure)
              /\ Get(u).stopTimeUpdate[2].arrival = None
              /\ v.delay = Some(0)

--------------------------------------------------------------------------
(* What the history claims speak of, stated on the collection itself *)

\* the records the collection holds for a trip
RecordsOf(trails, tripId) == {i \in 1..Len(trails) : trails[i].tripId = tripId}
\* every other trip's records
OthersOf(trails, tripId) == {trails[i] : i \in {j \in 1..Len(trails) : trails[j].tripId # tripId}}
\* the trail stored for a trip: empty when it has no record
StoredTrail(trails, tripId) ==
    IF RecordsOf(trails, tripId) = {} THEN <<>>
    ELSE trails[CHOOSE i \in RecordsOf(trails, tripId) : TRUE].trail

\* the appends a step of a writer makes: w is the writer before the step, wn
\* after it
AppendsOf(w, wn) ==
    IF w = None \/ wn = None THEN {}
    ELSE {Get(w).pending[i] :
             i \in {j \in 1..Len(Get(w).pending) :
                       /\ Get(wn).pending = RemoveAt(Get(w).pending, j)
                       /\ Get(wn).modified + Get(wn).upserted =
                             Get(w).modified + Get(w).upserted + 1}}

IsPrefix(s, t) == Len(s) <= Len(t) /\ SubSeq(t, 1, Len(s)) = s
Ascending(path) == \A i \in 1..Len(path) : \A j \in i..Len(path) : path[i].ts <= path[j].ts
PointsOf(path) == {path[i] : i \in 1..Len(path)}
\* r is the answer of the store's read of the trip
IsHistoryOf(r, tripId) ==
    r # None /\ r.kind = "history" /\ r.tripId = tripId /\ r.status = 200 /\ ~r.caught

\* C6 (first half): the collection holds at most one record per tripId
OneRecordPerTrip ==
    \A tripId \in TripIds : Cardinality(RecordsOf(vehicle_trails, tripId)) <= 1

\* C6 (second half): what an append leaves behind
AppendEffect ==
    \A op \in AppendsOf(cron, cron') \cup AppendsOf(ingest, ingest') :
       /\ Cardinality(RecordsOf(vehicle_trails', op.tripId)) = 1
       /\ \A i \in RecordsOf(vehicle_trails', op.tripId) :
             /\ vehicle_trails'[i].line = op.line
             /\ vehicle_trails'[i].vehicleId = op.vehicleId
             /\ vehicle_trails'[i].lastUpdate = op.lastUpdate
             /\ vehicle_trails'[i].trail =
                   Append(StoredTrail(vehicle_trails, op.tripId), op.point)
       /\ OthersOf(vehicle_trails', op.tripId) = OthersOf(vehicle_trails, op.tripId)

\* C6: after any sequence of appends from any mix of the cron ingestion and the
\* ingest endpoint the collection holds at most one record per tripId; an
\* append for tripId T creates the record if there is none, otherwise sets its
\* line, vehicleId and lastUpdate, and adds exactly one point at the end of
\* T's trail; every other trip's record is unchanged.
C6_OneRecordPerTripAppendOnePoint == []OneRecordPerTrip /\ [][AppendEffect]_vars

\* both writers are in the middle of a bulkWrite, the cron one has just added a
\* second point to an existing record
C6_Witness ==
    /\ cron # None
    /\ ingest # None
    /\ Get(cron).modified = 1
    /\ \E i \in 1..Len(vehicle_trails) : Len(vehicle_trails[i].trail) = 2

\* C7: an append to an existing record never moves its expireAt earlier than
\* it was before the append, for every interleaving of the cron writer and the
\* ingest-endpoint writer.
C7_ExpireAtNeverMovesEarlier ==
    [][\A op \in AppendsOf(cron, cron') \cup AppendsOf(ingest, ingest') :
          \A i \in RecordsOf(vehicle_trails, op.tripId) :
             \A j \in RecordsOf(vehicle_trails', op.tripId) :
                vehicle_trails'[j].expireAt >= vehicle_trails[i].expireAt]_vars

C9_ReadEmptyAfterWindow ==
    \A tripId \in TripIds :
       (/\ IsHistoryOf(res, tripId)
        /\ appended[tripId] # None
        /\ clock > Get(appended[tripId]) + IngestWindow)
       => res.path = <<>>

\* what a step leaves of the record i of the collection: a record of the same
\* trip whose trail starts with the trail as it was
Kept(i) ==
    \E j \in 1..Len(vehicle_trails') :
       /\ vehicle_trails'[j].tripId = vehicle_trails[i].tripId
       /\ IsPrefix(vehicle_trails[i].trail, vehicle_trails'[j].trail)

\* C10: expiry is the only deletion path: no step removes a record that has
\* not expired, removes a point from its trail or reorders the stored trail;
\* the stored trail only grows.
C10_OnlyExpiryDeletes ==
    [][\A i \in 1..Len(vehicle_trails) : Live(vehicle_trails[i]) => Kept(i)]_vars

\* a second point has been appended to a record and a read has answered with
\* both points: the record is still stored, its trail intact
C10_Witness ==
    \E i \in 1..Len(vehicle_trails) :
       /\ IsHistoryOf(res, vehicle_trails[i].tripId)
       /\ Len(res.path) = 2
       /\ Len(vehicle_trails[i].trail) = 2

\* a bulkWrite that is over, with some updateOne applied and some refused
MixedOutcome(w) ==
    /\ w # None
    /\ Get(w).pending = <<>>
    /\ Get(w).refused
    /\ Get(w).modified + Get(w).upserted > 0

\* C11: when some upserts of a bulk write were refused and others applied, the
\* operation reports the outcome counts to its caller (the cron iteration's
\* result, the ingest endpoint's 200 body) and does not fail the whole batch.
C11_MixedBatchReportsCounts ==
    [][/\ (MixedOutcome(cron) /\ cron' = None) =>
             /\ res' # None
             /\ ~res'.error
             /\ res'.modified = Get(cron).modified
             /\ res'.upserted = Get(cron).upserted
       /\ (MixedOutcome(ingest) /\ ingest' = None) =>
             /\ res' # None
             /\ res'.status = 200
             /\ res'.modified = Get(ingest).modified
             /\ res'.upserted = Get(ingest).upserted]_vars

--------------------------------------------------------------------------
(* What the App claims speak of, stated on the App's state itself *)

\* the ticks of d that resolved with a result set
ResolvedTicks(d) == LET Ok(t) == ~FetchLiveOutcome(t.c).threw IN SelectSeq(d, Ok)

\* the whole result set of the tick that resolved last among d; nothing when
\* none did
LastResult(d) ==
    IF ResolvedTicks(d) = <<>> THEN <<>>
    ELSE FetchLiveOutcome(ResolvedTicks(d)[Len(ResolvedTicks(d))].c).data

\* C12: whatever the order in which overlapping poll ticks start and complete,
\* the displayed vehicle set is the whole result set of the tick that completed
\* last with a result, never a mix of two ticks' results: the last completion
\* wins, not the last start.
C12_DisplayedIsLastCompleted == vehicles = LastResult(done)

\* two overlapping ticks completed in the reverse of their start order with
\* different result sets, and the earlier-started one, completing last, is shown
C12_Witness ==
    /\ Len(done) = 2
    /\ done[1].n > done[2].n
    /\ ResolvedTicks(done) = done
    /\ FetchLiveOutcome(done[1].c).data # <<>>
    /\ FetchLiveOutcome(done[2].c).data # <<>>
    /\ FetchLiveOutcome(done[1].c).data # FetchLiveOutcome(done[2].c).data
    /\ vehicles = FetchLiveOutcome(done[2].c).data

\* the tick that completes in this step, when one does
Completing == done'[Len(done')]
TickCompletes == Len(done') = Len(done) + 1

\* C13: when the position fetch of a poll tick fails (network error or non-OK
\* response), the tick leaves the displayed vehicle set as it was and the live
\* status becomes "error".
C13_FailedFetchRetainsAndDegrades ==
    [][(TickCompletes /\ Completing.c.posRes \in {"httpError", "networkError"})
          => (vehicles' = vehicles /\ liveStatus' = "error")]_vars

\* C14: a realtime payload that cannot be decoded, of the position feed or of
\* the trip-update feed, ends the call in an error that reaches the caller: it
\* is never answered with the empty list an empty feed would give.
C14_UndecodablePayloadIsAnError ==
    (call # None /\ (TheCall.posRes = "malformed" \/ TheCall.updatesRes = "malformed"))
        => threw

--------------------------------------------------------------------------
(* What the static cache claims speak of, stated on the browser storage itself *)

\* C15: however many callers invoke initialize concurrently, the static
\* extract is fetched at most once in a session: later callers wait for the
\* refresh in flight instead of starting their own.
C15_StaticExtractFetchedOnce == fetches <= 1

\* whether the step changes what is persisted
PersistedChanges ==
    stopsTable' # stopsTable \/ routesTable' # routesTable \/ timestamp' # timestamp

\* C16: a static refresh that fails or is malformed leaves the persisted stop
\* and route tables and the cache timestamp exactly as they were: what is
\* persisted changes only when a refresh that received both documents
\* well-formed completes its transaction.
C16_FailedRefreshLeavesCache ==
    [][PersistedChanges =>
          /\ txs # <<>>
          /\ txs' = Tail(txs)
          /\ Head(txs).waiter \in Callers
          /\ Head(txs).routes # None]_vars

\* C17: an initialize call fetches the static extract exactly when the cache
\* timestamp is absent or older than 7 days; with a fresh timestamp it fetches
\* nothing, leaves the tables and the timestamp alone and only loads the stop
\* index; a refresh that succeeds replaces the tables and sets the timestamp
\* to the time of the refresh.
C17_RefreshIffStale ==
    [][\A p \in Callers :
          /\ (inits[p].pc = "getDB" /\ inits'[p].pc # "getDB") =>
                IF timestamp = None \/ day - Get(timestamp) > 7
                THEN inits'[p].pc = "fetch" /\ fetches' = fetches + 1
                ELSE inits'[p].pc = "stops" /\ fetches' = fetches /\ ~PersistedChanges
          /\ (inits[p].pc = "stops" /\ inits'[p].pc # "stops") =>
                /\ fetches' = fetches /\ ~PersistedChanges
                /\ inits'[p].pc = "aux"
          /\ (inits[p].pc = "tx" /\ inits'[p].pc = "aux" /\ inits'[p].refresh = "ok") =>
                /\ timestamp' = Some(day)
                /\ stopsTable' = Head(txs).stops
                /\ routesTable' = Get(Head(txs).routes)]_vars

\* a caller found a timestamp older than 7 days, fetched, and its refresh has
\* just completed: the timestamp is the present day
C17_Witness ==
    \E p \in Callers :
        /\ inits[p].pc = "aux" /\ inits[p].refresh = "ok"
        /\ inits[p].lastUpdate # None
        /\ day - Get(inits[p].lastUpdate) > 7
        /\ timestamp = Some(day)
        /\ fetches = 1

--------------------------------------------------------------------------
(* What the route filter and the bounds filter claims speak of *)

\* allVehicles of the call whose result liveVehicles holds: the labelled
\* vehicles before the route filter
Unfiltered ==
    IF TheCall.variant = "full"
    THEN AllVehicles(TheCall.feed, tripToRouteMap, routeDirections, stopsMap)
    ELSE ResolveSimpleFrom(PosOfCall, 1, tripToRouteMap, <<>>)

\* a call that reached the route filter with a route
Filtered ==
    /\ Resolved
    /\ TheCall.route # None
    /\ TheCall.variant = "simple" => tripToRouteMap # None

\* C18: with a route given, getLiveVehicles returns exactly the vehicles whose
\* tripId is in the route's trip-id set when there is at least one; when there
\* is none and the unfiltered set is not empty, it returns exactly the vehicles
\* whose line equals the route's id.
C18_FilterByRoute ==
    Filtered =>
       LET route      == Get(TheCall.route)
           InTrips(v) == v.tripId \in route.trip_ids
           OnLine(v)  == v.line = route.id
           anyInTrips == \E k \in 1..Len(Unfiltered) : InTrips(Unfiltered[k])
       IN  /\ anyInTrips => liveVehicles = SelectSeq(Unfiltered, InTrips)
           /\ (~anyInTrips /\ Unfiltered # <<>>) => liveVehicles = SelectSeq(Unfiltered, OnLine)

\* no vehicle of the feed runs one of the route's trips, and the fallback keeps
\* some of the vehicles, those on the route's line, and drops others
C18_Witness ==
    /\ Filtered
    /\ \A k \in 1..Len(Unfiltered) : Unfiltered[k].tripId \notin Get(TheCall.route).trip_ids
    /\ liveVehicles # <<>>
    /\ Len(liveVehicles) < Len(Unfiltered)
    /\ \A v \in Emitted : v.line = Get(TheCall.route).id

\* the vehicles displayed and the vehicles rendered, as sets
Displayed == {vehicles[k] : k \in 1..Len(vehicles)}
Rendered  == {visibleVehicles[k] : k \in 1..Len(visibleVehicles)}

\* whether v lies in the box b grown by half its extent on every side
InPadded(b, v) ==
    LET p == LatLng[v.tripId]
    IN  /\ 2 * p.lat >= 2 * b.s - (b.n - b.s) /\ 2 * p.lat <= 2 * b.n + (b.n - b.s)
        /\ 2 * p.lng >= 2 * b.w - (b.e - b.w) /\ 2 * p.lng <= 2 * b.e + (b.e - b.w)

\* C19: while no map bounds are known the bounds filter yields nothing,
\* whatever the vehicles, the route and the show-all setting; with bounds known
\* it yields only displayed vehicles, each inside the padded box.
C19_BoundsFilter ==
    /\ visibleBounds = None => visibleVehicles = <<>>
    /\ visibleBounds # None =>
          /\ Rendered \subseteq Displayed
          /\ \A v \in Rendered : InPadded(Get(visibleBounds), v)

\* with bounds known and show-all on, one displayed vehicle is rendered although
\* it lies outside the box itself, inside its padding, and another is not rendered
C19_Witness ==
    /\ visibleBounds # None
    /\ showAllVehicles
    /\ \E v \in Rendered : ~Contains(Get(visibleBounds), LatLng[v.tripId])
    /\ Displayed \ Rendered # {}

\* the catalog the resolver reads
Catalog == <<isInitialized, tripToRouteMap, routeDirections, stopsMap>>

\* whether this step resolves again the inputs the last call resolved
ResolvesAgain ==
    /\ call # None
    /\ call' # None
    /\ Get(call') = [Get(call) EXCEPT !.poll = 2]
    /\ Get(call).poll = 1

--------------------------------------------------------------------------
(* The points of the stored trails *)

\* a point with a position: both coordinates are defined
Positioned(p) == p.lat # None /\ p.lng # None

\* C30: every point in every stored trail has a defined latitude and
\* longitude, and belongs to a record whose tripId is a non-empty string,
\* whichever writer stored it (so that neither writer writes a point for a
\* vehicle that lacks a tripId or a position).
C30_StoredPointsPositioned ==
    \A i \in 1..Len(vehicle_trails) :
        /\ vehicle_trails[i].tripId # ""
        /\ \A k \in 1..Len(vehicle_trails[i].trail) :
              Positioned(vehicle_trails[i].trail[k])

--------------------------------------------------------------------------
(* The in-memory stop index against the persisted stop table *)

\* the stop-id -> name index holds every stop of the persisted table
IndexCoversTable == DOMAIN stopsTable \subseteq DOMAIN stopsMap

\* C29: once initialize has completed, the in-memory stop-id -> name index
\* contains every stop in the persisted stop table, on every path: fresh
\* cache, successful refresh, and failed refresh of a stale cache.
C29_IndexCoversPersistedStops == isInitialized => IndexCoversTable

--------------------------------------------------------------------------
(* The displayed set against the active route (App.tsx) *)

\* the result sets that completed fetchLive calls computed for the route r
ResultsFor(r) ==
    {FetchLiveOutcome(done[i].c).data :
        i \in {j \in 1..Len(done) : /\ done[j].c.route = r
                                    /\ ~FetchLiveOutcome(done[j].c).threw}}

\* C28: in the route-scoped polling variant, the displayed vehicle set is
\* always either empty or a result computed for the currently active route:
\* a fetch started for the previous route never replaces the displayed set
\* once the route has changed or has been cleared.
C28_DisplayedIsOfActiveRoute ==
    app = "simple" =>
        \/ vehicles = <<>>
        \/ activeRoute # None /\ vehicles \in ResultsFor(activeRoute)

--------------------------------------------------------------------------
(* Strings: a string is the sequence of its characters *)

\* String.prototype.toLowerCase, on the characters the model uses
Lower(ch) == CASE ch = "A" -> "a"
               [] ch = "B" -> "b"
               [] OTHER    -> ch
ToLowerCase(s) == [i \in 1..Len(s) |-> Lower(s[i])]

\* String.prototype.trim
RECURSIVE TrimStart(_)
TrimStart(s) == IF s # <<>> /\ Head(s) = " " THEN TrimStart(Tail(s)) ELSE s
RECURSIVE TrimEnd(_)
TrimEnd(s) == IF s # <<>> /\ s[Len(s)] = " " THEN TrimEnd(SubSeq(s, 1, Len(s) - 1)) ELSE s
Trim(s) == TrimEnd(TrimStart(s))

\* String.prototype.startsWith, endsWith, includes
StartsWith(s, t) == Len(t) <= Len(s) /\ SubSeq(s, 1, Len(t)) = t
EndsWith(s, t)   == Len(t) <= Len(s) /\ SubSeq(s, Len(s) - Len(t) + 1, Len(s)) = t
Includes(s, t)   == \E k \in 0..(Len(s) - Len(t)) : SubSeq(s, k + 1, k + Len(t)) = t

--------------------------------------------------------------------------
(* SLService.findVehicle: the lookup by vehicle number *)

MaxFind == 2   \* entities of the position feed findVehicle scans

\* a decoded entity of the position feed, as findVehicle reads it: the entity
\* id, whether the VehiclePosition carries a vehicle descriptor, the
\* descriptor's label and id, whether it carries a position, and the trip
\* descriptor's tripId and routeId ("" when absent)
FindEntity(id, descriptor, label, vid, position, tripId, routeId) ==
    [id |-> id, descriptor |-> descriptor, label |-> label, vid |-> vid,
     position |-> position, tripId |-> tripId, routeId |-> routeId]
FindEntities ==
    {FindEntity("e1", TRUE,  <<"1", "2">>, <<"9", "1", "2">>, TRUE,  "",   "rP"),
     FindEntity("e2", TRUE,  <<"1", "2">>, <<>>,              TRUE,  "t1", ""),
     FindEntity("e3", TRUE,  <<"1", "2">>, <<"7">>,           TRUE,  "",   ""),
     FindEntity("e4", TRUE,  <<"3">>,      <<"8", "1", "2">>, TRUE,  "t2", "rM"),
     FindEntity("e5", TRUE,  <<"9">>,      <<"1", "2", "9">>, TRUE,  "t1", "rP"),
     FindEntity("e6", TRUE,  <<" ", "1", "2">>, <<"7">>,      FALSE, "",   "rP"),
     FindEntity("e7", FALSE, <<"1", "2">>, <<"1", "2">>,      TRUE,  "t1", "rP"),
     FindEntity("e8", TRUE,  <<>>,         <<"1", "2">>,      TRUE,  "t1", "rP")}
FindFeeds == UNION {SeqsOfLen(FindEntities, n) : n \in 0..MaxFind}

\* the vehicle numbers the search box may pass
VehicleNumbers == {<<"1", "2">>, <<" ", "1", "2", " ">>, <<"2">>, <<"4">>}

\* label === target || (vid && vid.endsWith(target)), on trimmed strings
FindMatches(e, target) ==
    e.descriptor /\ (Trim(e.label) = target
                     \/ (Trim(e.vid) # <<>> /\ EndsWith(Trim(e.vid), target)))

\* the route id findVehicle resolves for an entity: the trip descriptor's,
\* replaced by the trip map's whenever the map has an entry for the trip
FindRouteId(e, tripMap) ==
    IF e.tripId # "" /\ IsSome(MapEntryOf(tripMap, e.tripId))
    THEN Get(MapEntryOf(tripMap, e.tripId)).r
    ELSE e.routeId

\* the object findVehicle returns for the entity e
FoundVehicle(e, routeId) ==
    [vehicle |-> [id     |-> IF e.vid # <<>> THEN e.vid ELSE e.id,
                  line   |-> routeId,
                  tripId |-> e.tripId,
                  destination |-> "",
                  type   |-> "Buss"],
     routeId |-> routeId]

\* what FindVehicleFrom must not be: the scan goes on and the last match wins
RECURSIVE FindVehicleLast(_, _, _, _)
FindVehicleLast(posEntities, i, target, tripMap) ==
    IF i > Len(posEntities) THEN None
    ELSE LET e       == posEntities[i]
             routeId == FindRouteId(e, tripMap)
             later   == FindVehicleLast(posEntities, i + 1, target, tripMap)
         IN  IF FindMatches(e, target) /\ routeId # "" /\ later = None
             THEN IF e.position THEN Some(FoundVehicle(e, routeId)) ELSE None
             ELSE later

\* the for loop of findVehicle from entity i on: the first matching entity
\* with a route id is returned; reading the position of an entity that has
\* none throws, and the catch returns null
RECURSIVE FindVehicleFrom(_, _, _, _)
FindVehicleFrom(posEntities, i, target, tripMap) ==
    IF i > Len(posEntities) THEN None
    ELSE LET e       == posEntities[i]
             routeId == FindRouteId(e, tripMap)
         IN  IF FindMatches(e, target) /\ routeId # ""
             THEN IF e.position THEN Some(FoundVehicle(e, routeId)) ELSE None
             ELSE FindVehicleFrom(posEntities, i + 1, target, tripMap)

\* findVehicle(vehicleNumber) over the fetch outcome posRes and the decoded feed
FindVehicleReturn(vehicleNumber, posRes, posEntities, tripMap) ==
    IF posRes # "ok" THEN None
    ELSE FindVehicleFrom(posEntities, 1, Trim(vehicleNumber), tripMap)

\* findVehicle is called and returns
FindVehicle ==
    /\ isInitialized
    /\ found = None
    /\ \E vehicleNumber \in VehicleNumbers :
       \E posRes \in {"ok", "httpError", "networkError", "malformed"} :
       \E posEntities \in (IF posRes = "ok" THEN FindFeeds ELSE {<<>>}) :
          found' = Some([vehicleNumber |-> vehicleNumber, posRes |-> posRes,
                         posEntities |-> posEntities,
                         result |-> FindVehicleReturn(vehicleNumber, posRes, posEntities,
                                                      tripToRouteMap)])
    /\ UNCHANGED <<searched, selectedVehicleId, historyPath, reads>>
    /\ UNCHANGED <<svcVars, appVars, cacheVars, histVars, loopVars>>

\* the vehicle search box is done with the result (VehicleSearch, onFound)
FindVehicleHandled ==
    /\ found # None
    /\ found' = None
    /\ UNCHANGED <<searched, selectedVehicleId, historyPath, reads>>
    /\ UNCHANGED <<svcVars, appVars, cacheVars, histVars, loopVars>>

FindNext ==
    \/ Initialize
    \/ FindVehicle
    \/ FindVehicleHandled
FindSpec == Init /\ [][FindNext]_vars

--------------------------------------------------------------------------
(* What the findVehicle claim speaks of *)

\* the number matches the entity: its vehicle label equals the number, or its
\* vehicle id ends with the number
NumberMatches(e, number) ==
    e.descriptor /\ (Trim(e.label) = number
                     \/ (Trim(e.vid) # <<>> /\ EndsWith(Trim(e.vid), number)))

\* the positions in the feed of the entities the number matches, and of those
\* among them for which a route id was resolved
MatchesIn(f)       == {i \in 1..Len(f.posEntities) :
                          NumberMatches(f.posEntities[i], Trim(f.vehicleNumber))}
RoutedMatchesIn(f) == {i \in MatchesIn(f) :
                          FindRouteId(f.posEntities[i], tripToRouteMap) # ""}

\* the result is the vehicle of entity i of the feed, paired with that
\* entity's resolved route id
IsResultOf(f, i) ==
    LET e == f.posEntities[i]
        r == Get(f.result)
    IN  /\ r.routeId = FindRouteId(e, tripToRouteMap)
        /\ r.vehicle.line = r.routeId
        /\ r.vehicle.tripId = e.tripId
        /\ r.vehicle.id = (IF e.vid # <<>> THEN e.vid ELSE e.id)

--------------------------------------------------------------------------
(* SLService.search: the line and stop search over the static catalog *)

MaxQuery == 2   \* characters of a search query

\* the UTF-16 code unit of the characters the catalog and the queries use
Code(ch) == CASE ch = " " -> 32
              [] ch = "0" -> 48 [] ch = "1" -> 49 [] ch = "2" -> 50 [] ch = "3" -> 51
              [] ch = "4" -> 52 [] ch = "5" -> 53 [] ch = "6" -> 54 [] ch = "7" -> 55
              [] ch = "8" -> 56 [] ch = "9" -> 57
              [] ch = "A" -> 65 [] ch = "B" -> 66
              [] ch = "a" -> 97 [] ch = "b" -> 98

\* the order of IndexedDB string keys: code unit by code unit, a proper
\* prefix first
RECURSIVE KeyLess(_, _)
KeyLess(a, b) ==
    IF a = <<>> THEN b # <<>>
    ELSE IF b = <<>> THEN FALSE
    ELSE IF Code(Head(a)) # Code(Head(b)) THEN Code(Head(a)) < Code(Head(b))
    ELSE KeyLess(Tail(a), Tail(b))

\* an entry of the manifest (object store "routes") and a stop (object store
\* "stops"); a stop lies m metres north of a fixed point, all stops on one
\* meridian
LineManifestEntry(id, line) == [id |-> id, line |-> line]
SLStop(id, name, m)         == [id |-> id, name |-> name, m |-> m]

\* index('line'): the manifest entries by line, then by primary key
RECURSIVE LineIndex(_)
LineIndex(routes) ==
    IF routes = {} THEN <<>>
    ELSE LET first == CHOOSE r \in routes : \A o \in routes \ {r} :
                          KeyLess(r.line, o.line) \/ (r.line = o.line /\ KeyLess(r.id, o.id))
         IN  <<first>> \o LineIndex(routes \ {first})

\* index('name'): the stops by name, then by primary key
RECURSIVE NameIndex(_)
NameIndex(stops) ==
    IF stops = {} THEN <<>>
    ELSE LET first == CHOOSE x \in stops : \A o \in stops \ {x} :
                          KeyLess(x.name, o.name) \/ (x.name = o.name /\ KeyLess(x.id, o.id))
         IN  <<first>> \o NameIndex(stops \ {first})

\* getDistance: the haversine distance of two points of one meridian is the
\* length of the arc between them
GetDistance(m1, m2) == IF m1 < m2 THEN m2 - m1 ELSE m1 - m2

\* the search results built for a manifest entry and for a stop
Linje == <<"L", "i", "n", "j", "e", " ">>
LineResult(route) == [type |-> "line", id |-> route.id, title |-> Linje \o route.line]
StopResult(stop)  == [type |-> "stop", id |-> stop.id, title |-> stop.name]

\* what SearchLinesFrom must not be: the line only has to contain the query
RECURSIVE SearchLinesContaining(_, _, _, _)
SearchLinesContaining(index, i, query, results) ==
    IF i > Len(index) THEN results
    ELSE LET route == index[i]
             after == IF Includes(ToLowerCase(route.line), query)
                      THEN Append(results, LineResult(route)) ELSE results
         IN  IF Len(after) < 10 THEN SearchLinesContaining(index, i + 1, query, after)
             ELSE after

\* searchLines: the cursor over index('line') from entry i on
RECURSIVE SearchLinesFrom(_, _, _, _)
SearchLinesFrom(index, i, query, results) ==
    IF i > Len(index) THEN results
    ELSE LET route == index[i]
             after == IF StartsWith(ToLowerCase(route.line), query)
                      THEN Append(results, LineResult(route)) ELSE results
         IN  IF Len(after) < 10 THEN SearchLinesFrom(index, i + 1, query, after)
             ELSE after

\* what SearchStopsFrom must not be: the stops already returned are not looked at
RECURSIVE SearchStopsAll(_, _, _, _, _, _)
SearchStopsAll(index, i, query, dedupe, existingResultsByLocation, results) ==
    IF i > Len(index) THEN results
    ELSE LET stop  == index[i]
             after == IF Includes(ToLowerCase(stop.name), query)
                      THEN Append(results, StopResult(stop)) ELSE results
         IN  IF Len(after) < 10
             THEN SearchStopsAll(index, i + 1, query, dedupe, existingResultsByLocation, after)
             ELSE after

\* searchStops: the cursor over index('name') from entry i on; the variant of
\* services/slService.ts (dedupe) leaves out a stop that lies less than 500
\* metres from a stop of the same name it has already returned
RECURSIVE SearchStopsFrom(_, _, _, _, _, _)
SearchStopsFrom(index, i, query, dedupe, existingResultsByLocation, results) ==
    IF i > Len(index) THEN results
    ELSE LET stop       == index[i]
             isTooClose == dedupe /\ \E p \in existingResultsByLocation :
                               p.name = stop.name /\ GetDistance(p.m, stop.m) < 500
             matches    == Includes(ToLowerCase(stop.name), query)
             taken      == matches /\ ~isTooClose
             after      == IF taken THEN Append(results, StopResult(stop)) ELSE results
             seen       == IF taken
                           THEN existingResultsByLocation \cup {[name |-> stop.name, m |-> stop.m]}
                           ELSE existingResultsByLocation
         IN  IF Len(after) < 10
             THEN SearchStopsFrom(index, i + 1, query, dedupe, seen, after)
             ELSE after

\* [...].slice(0, 15)
Slice15(results) == SubSeq(results, 1, IF Len(results) < 15 THEN Len(results) ELSE 15)

\* what SearchReturn must not be: the active route is not looked at
SearchReturnGlobal(variant, query, route, db) ==
    LET q     == ToLowerCase(query)
        lines == SearchLinesFrom(LineIndex(db.routes), 1, q, <<>>)
        stops == SearchStopsFrom(NameIndex(db.stops), 1, q, variant = "simple", {}, <<>>)
    IN  IF Trim(query) = <<>> THEN [lines |-> <<>>, stops |-> <<>>, result |-> <<>>]
        ELSE [lines |-> lines, stops |-> stops, result |-> Slice15(lines \o stops)]

\* what SearchReturn must not be: the stops come first and nothing is cut
SearchReturnStopsFirst(variant, query, route, db) ==
    LET q     == ToLowerCase(query)
        lines == SearchLinesFrom(LineIndex(db.routes), 1, q, <<>>)
        stops == SearchStopsFrom(NameIndex(db.stops), 1, q, variant = "simple", {}, <<>>)
    IN  IF Trim(query) = <<>> THEN [lines |-> <<>>, stops |-> <<>>, result |-> <<>>]
        ELSE [lines |-> lines, stops |-> stops, result |-> stops \o lines]

\* search(query, activeRoute) of the variant over the catalog db: the line
\* results and the stop results it awaits, and what it returns
SearchReturn(variant, query, route, db) ==
    LET q     == ToLowerCase(query)
        lines == SearchLinesFrom(LineIndex(db.routes), 1, q, <<>>)
        InName(stop) == Includes(ToLowerCase(stop.name), q)
        StopOf(i)    == StopResult(SelectSeq(Get(Get(route).stops), InName)[i])
        stopResults  == [i \in 1..Len(SelectSeq(Get(Get(route).stops), InName)) |-> StopOf(i)]
        stops == SearchStopsFrom(NameIndex(db.stops), 1, q, variant = "simple", {}, <<>>)
    IN  IF Trim(query) = <<>> THEN [lines |-> <<>>, stops |-> <<>>, result |-> <<>>]
        ELSE IF route # None /\ Get(route).stops # None
        THEN [lines |-> lines, stops |-> stopResults, result |-> Slice15(lines \o stopResults)]
        ELSE [lines |-> lines, stops |-> stops, result |-> Slice15(lines \o stops)]

\* the catalogs the search runs over: a manifest of a few lines, one of more
\* than ten lines that begin with 4, stops of one name that lie close to each
\* other, and more than ten stops of one name that lie a kilometre apart
Digits == {"0", "1", "2", "3", "4", "5", "6", "7", "8", "9"}
FewLines ==
    {LineManifestEntry(<<"1">>, <<"4", "0">>), LineManifestEntry(<<"2">>, <<"1", "4">>),
     LineManifestEntry(<<"3">>, <<"4">>),      LineManifestEntry(<<"4">>, <<"A", "b">>)}
ManyLines ==
    {LineManifestEntry(<<"9", "4", ch>>, <<"4", ch>>) : ch \in Digits}
    \cup {LineManifestEntry(<<"9", "4">>, <<"4">>),
          LineManifestEntry(<<"9", "4", "0", "0">>, <<"4", "0", "0">>),
          LineManifestEntry(<<"9", "1", "4">>, <<"1", "4">>)}
FewStops ==
    {SLStop(<<"1">>, <<"A", "b", " ", "4">>, 0),   SLStop(<<"2">>, <<"A", "b", " ", "4">>, 400),
     SLStop(<<"3">>, <<"A", "b", " ", "4">>, 500), SLStop(<<"4">>, <<"a", "b", " ", "4">>, 100),
     SLStop(<<"5">>, <<"B">>, 0),                  SLStop(<<"6">>, <<"A", "b", " ", "4">>, 899)}
ManyStops ==
    {SLStop(<<"1", ch>>, <<"4", "a">>, 1000 * (Code(ch) - 48)) : ch \in Digits}
    \cup {SLStop(<<"2", "0">>, <<"4", "a">>, 10000), SLStop(<<"2", "1">>, <<"4", "a">>, 11000),
          SLStop(<<"2", "2">>, <<"4", "a">>, 100)}
SearchDBs == {[routes |-> r, stops |-> x] : r \in {{}, FewLines, ManyLines},
                                           x \in {{}, FewStops, ManyStops}}

\* the active route the search box may pass: none, a route with its stops,
\* a route object without stops
SearchRoutes ==
    {None,
     Some([id |-> "rP", stops |-> Some(<<SLStop(<<"1">>, <<"A", "b", " ", "4">>, 0),
                                         SLStop(<<"7">>, <<"B", "4">>, 50),
                                         SLStop(<<"8">>, <<"a">>, 0)>>)]),
     Some([id |-> "rM", stops |-> None])}

\* the queries the search box may pass
QueryChars == {"4", "a", "A", "b", " "}
Queries == UNION {SeqsOfLen(QueryChars, n) : n \in 0..MaxQuery}

\* search(query, activeRoute) is called and returns
Search ==
    /\ isInitialized
    /\ searched = None
    /\ \E variant \in {"full", "simple"} : \E query \in Queries :
       \E route \in SearchRoutes : \E db \in SearchDBs :
          searched' = Some([variant |-> variant, query |-> query, route |-> route, db |-> db,
                            out |-> SearchReturn(variant, query, route, db)])
    /\ UNCHANGED <<found, selectedVehicleId, historyPath, reads>>
    /\ UNCHANGED <<svcVars, appVars, cacheVars, histVars, loopVars>>

\* the search box is done with the results
SearchHandled ==
    /\ searched # None
    /\ searched' = None
    /\ UNCHANGED <<found, selectedVehicleId, historyPath, reads>>
    /\ UNCHANGED <<svcVars, appVars, cacheVars, histVars, loopVars>>

SearchNext ==
    \/ Initialize
    \/ Search
    \/ SearchHandled
SearchSpec == Init /\ [][SearchNext]_vars

--------------------------------------------------------------------------
(* What the search claims speak of *)

\* the search call made, and whether it got past the blank-query test
TheSearch == Get(searched)
Searching == searched # None /\ Trim(TheSearch.query) # <<>>

\* the first n elements of a sequence
FirstN(seq, n) == SubSeq(seq, 1, IF Len(seq) < n THEN Len(seq) ELSE n)

\* the ids of a sequence of results or of catalog entries, in order
IdsOf(seq) == [i \in 1..Len(seq) |-> seq[i].id]

\* a starts with b, a contains b, a equals b, all without regard to case
StartsWithNoCase(a, b) == StartsWith(ToLowerCase(a), ToLowerCase(b))
ContainsNoCase(a, b)   == Includes(ToLowerCase(a), ToLowerCase(b))
EqualsNoCase(a, b)     == ToLowerCase(a) = ToLowerCase(b)

\* the manifest entries whose short name starts with the prefix, in the scan
\* order of the line index
LinesWithPrefix(db, prefix) ==
    LET Begins(route) == StartsWithNoCase(route.line, prefix)
    IN  SelectSeq(LineIndex(db.routes), Begins)

\* C23: searchLines(prefix) returns at most 10 results, and they are exactly
\* the first manifest entries, in the scan order of the line index, whose
\* short name starts with the prefix case-insensitively; an entry that merely
\* contains the prefix is excluded ("4" over 40, 14, 4 yields 4 and 40,
\* never 14).
C23_FirstTenLinesWithPrefix ==
    Searching =>
        /\ Len(TheSearch.out.lines) <= 10
        /\ \A i \in 1..Len(TheSearch.out.lines) : TheSearch.out.lines[i].type = "line"
        /\ IdsOf(TheSearch.out.lines)
              = IdsOf(FirstN(LinesWithPrefix(TheSearch.db, TheSearch.query), 10))

\* more than ten lines begin with the prefix and ten are returned, while a
\* line that contains the prefix without beginning with it is in the manifest
C23_Witness ==
    /\ Searching
    /\ Len(LinesWithPrefix(TheSearch.db, TheSearch.query)) > 10
    /\ Len(TheSearch.out.lines) = 10
    /\ \E route \in TheSearch.db.routes :
          /\ ContainsNoCase(route.line, TheSearch.query)
          /\ ~StartsWithNoCase(route.line, TheSearch.query)

\* the search ran with an active route that has stops; the stops of that route
RouteActive == Searching /\ TheSearch.route # None /\ Get(TheSearch.route).stops # None
RouteStops  == Get(Get(TheSearch.route).stops)

\* the line results and the stop results among what search returned
IsLine(r) == r.type = "line"
IsStop(r) == r.type = "stop"
ReturnedLines == SelectSeq(TheSearch.out.result, IsLine)
ReturnedStops == SelectSeq(TheSearch.out.result, IsStop)

\* the result r is the stop x
ResultOfStop(r, x) == r.id = x.id /\ r.title = x.name

\* C24 as stated: when a route is active, every stop result of search is one
\* of that route's own stops whose name matches the query exactly
\* (case-insensitively), and these are combined with the global line matches;
\* no stop outside the active route is returned.
C24_RouteStopsExactMatch ==
    RouteActive =>
        /\ \A i \in 1..Len(ReturnedStops) :
              \E k \in 1..Len(RouteStops) :
                  /\ ResultOfStop(ReturnedStops[i], RouteStops[k])
                  /\ EqualsNoCase(RouteStops[k].name, TheSearch.query)
        /\ IdsOf(ReturnedLines) = IdsOf(FirstN(LinesWithPrefix(TheSearch.db, TheSearch.query), 10))

\* C24: when a route is active, every stop result of search is one of that
\* route's own stops whose name contains the query (case-insensitively), and
\* these are combined with the global line matches; no stop outside the
\* active route is returned.
C24_RouteStopsContaining ==
    RouteActive =>
        /\ \A i \in 1..Len(ReturnedStops) :
              \E k \in 1..Len(RouteStops) :
                  /\ ResultOfStop(ReturnedStops[i], RouteStops[k])
                  /\ ContainsNoCase(RouteStops[k].name, TheSearch.query)
        /\ IdsOf(ReturnedLines) = IdsOf(FirstN(LinesWithPrefix(TheSearch.db, TheSearch.query), 10))

\* with a route active, a stop of the route whose name contains the query
\* without being equal to it is returned after a line, while the catalog has
\* a stop outside the route that contains the query as well
C24_Witness ==
    /\ RouteActive
    /\ ReturnedLines # <<>>
    /\ \E i \in 1..Len(ReturnedStops) : ~EqualsNoCase(ReturnedStops[i].title, TheSearch.query)
    /\ \E x \in TheSearch.db.stops :
          /\ ContainsNoCase(x.name, TheSearch.query)
          /\ \A k \in 1..Len(RouteStops) : RouteStops[k].id # x.id

\* C25: search returns at most 15 results with every line result before
\* every stop result, and an empty or whitespace-only query returns no
\* results.
C25_LinesFirstAtMostFifteen ==
    searched # None =>
        /\ Len(TheSearch.out.result) <= 15
        /\ \A i, j \in 1..Len(TheSearch.out.result) :
              (i < j /\ IsStop(TheSearch.out.result[i])) => IsStop(TheSearch.out.result[j])
        /\ Trim(TheSearch.query) = <<>> => TheSearch.out.result = <<>>

\* lines and stops were found, more than 15 in all, and 15 are returned
C25_Witness ==
    /\ Searching
    /\ Len(TheSearch.out.lines) + Len(TheSearch.out.stops) > 15
    /\ Len(TheSearch.out.result) = 15
    /\ ReturnedLines # <<>>
    /\ ReturnedStops # <<>>

\* the search ran searchStops over the whole catalog; the stop of the catalog
\* with a given id; where a stop stands in the scan order of the name index
Global == Searching /\ ~(TheSearch.route # None /\ Get(TheSearch.route).stops # None)
StopById(id) == CHOOSE x \in TheSearch.db.stops : x.id = id
ScanPos(index, x) == CHOOSE i \in 1..Len(index) : index[i] = x

\* the stops searchStops returned, and whether its scan came to the stop x
FoundStops == {StopById(TheSearch.out.stops[i].id) : i \in 1..Len(TheSearch.out.stops)}
Scanned(index, x) == Len(TheSearch.out.stops) < 10
                     \/ \E y \in FoundStops : ScanPos(index, x) < ScanPos(index, y)

--------------------------------------------------------------------------
(* The displayed history trail against the selection *)

\* the tripIds of the displayed vehicles that carry the selected id
SelectedTrips ==
    IF selectedVehicleId = None THEN {}
    ELSE {vehicles[k].tripId : k \in {j \in 1..Len(vehicles) :
                                         vehicles[j].id = Get(selectedVehicleId)}}

\* C27: whenever the displayed history trail is non-empty, it is the result
\* of a history read for the tripId of the currently selected vehicle: after
\* a vehicle is deselected, or another vehicle is selected, a history read
\* started for the earlier selection that completes later never sets the
\* displayed trail.
C27_TrailIsOfSelectedVehicle ==
    historyPath # <<>> => \E t \in SelectedTrips : historyPath = TrailOf(t)

--------------------------------------------------------------------------
(* The cron handler: the loop that fills the minute *)

TOTAL_RUN_TIME_MS == 58000
INTERVAL_MS       == 10000

\* how long one fetchAndSaveData may take, in milliseconds: shorter than the
\* interval, longer than the interval, half the budget
WorkDurations == {2000, 12000, 30000}

\* Math.max(0, INTERVAL_MS - workDuration)
SleepTime(workDuration) ==
    IF INTERVAL_MS - workDuration > 0 THEN INTERVAL_MS - workDuration ELSE 0

\* the handler answers before the loop: the secret does not match (401), the
\* feed key is missing (500), or the database client cannot be had (500)
CronRefuses ==
    /\ cronRun = None
    /\ \E status \in {401, 500} :
          cronRun' = Some([pc |-> "responded", status |-> status, elapsed |-> 0,
                           iterations |-> 0, results |-> <<>>])
    /\ UNCHANGED <<svcVars, appVars, cacheVars, histVars, uiVars>>

\* the handler gets past its checks and has the database: the loop begins
CronStarts ==
    /\ cronRun = None
    /\ cronRun' = Some([pc |-> "loop", status |-> 0, elapsed |-> 0,
                        iterations |-> 0, results |-> <<>>])
    /\ UNCHANGED <<svcVars, appVars, cacheVars, histVars, uiVars>>

\* what AfterIteration must not be: a failed iteration ends the loop
AfterIterationFatal(run, failed, workDuration) ==
    LET now == run.elapsed + workDuration
        rec == IF failed THEN [iteration |-> run.iterations + 1, error |-> TRUE]
               ELSE [iteration |-> run.iterations + 1, error |-> FALSE]
    IN  [run EXCEPT !.iterations = @ + 1,
                    !.results    = Append(@, rec),
                    !.elapsed    = IF now + SleepTime(workDuration) >= TOTAL_RUN_TIME_MS \/ failed
                                   THEN now ELSE now + SleepTime(workDuration),
                    !.pc         = IF now + SleepTime(workDuration) >= TOTAL_RUN_TIME_MS \/ failed
                                   THEN "exit" ELSE "loop"]

\* the body of the while loop for an iteration that took workDuration and
\* failed or not: the result or the error is pushed, then the loop breaks
\* when sleeping would use up the budget, and sleeps otherwise
AfterIteration(run, failed, workDuration) ==
    LET now == run.elapsed + workDuration
        rec == IF failed THEN [iteration |-> run.iterations + 1, error |-> TRUE]
               ELSE [iteration |-> run.iterations + 1, error |-> FALSE]
    IN  [run EXCEPT !.iterations = @ + 1,
                    !.results    = Append(@, rec),
                    !.elapsed    = IF now + SleepTime(workDuration) >= TOTAL_RUN_TIME_MS
                                   THEN now ELSE now + SleepTime(workDuration),
                    !.pc         = IF now + SleepTime(workDuration) >= TOTAL_RUN_TIME_MS
                                   THEN "exit" ELSE "loop"]

\* one turn of the while loop: the condition, and the body when it holds
CronIteration ==
    /\ cronRun # None
    /\ Get(cronRun).pc = "loop"
    /\ IF Get(cronRun).elapsed < TOTAL_RUN_TIME_MS
       THEN \E failed \in BOOLEAN : \E workDuration \in WorkDurations :
               cronRun' = Some(AfterIteration(Get(cronRun), failed, workDuration))
       ELSE cronRun' = Some([Get(cronRun) EXCEPT !.pc = "exit"])
    /\ UNCHANGED <<svcVars, appVars, cacheVars, histVars, uiVars>>

\* after the loop: res.status(200).json({ success, iterations, details })
CronResponds ==
    /\ cronRun # None
    /\ Get(cronRun).pc = "exit"
    /\ cronRun' = Some([Get(cronRun) EXCEPT !.pc = "responded", !.status = 200])
    /\ UNCHANGED <<svcVars, appVars, cacheVars, histVars, uiVars>>

\* the scheduler invokes the handler again the next minute
CronAgain ==
    /\ cronRun # None
    /\ Get(cronRun).pc = "responded"
    /\ cronRun' = None
    /\ UNCHANGED <<svcVars, appVars, cacheVars, histVars, uiVars>>

\* the two polling loops, the server's and the browser's: they share no
\* state, and are taken one after the other, the cron handler's runs first,
\* the App of App.tsx or part_002 once the handler is idle.  The event loop
\* resumes the handler when the awaited fetchAndSaveData or the sleep timer
\* settles, hence the weak fairness of its steps.
LoopNext ==
    \/ ~isInitialized /\ CronRefuses
    \/ ~isInitialized /\ CronStarts
    \/ ~isInitialized /\ CronIteration
    \/ ~isInitialized /\ CronResponds
    \/ ~isInitialized /\ CronAgain
    \/ cronRun = None /\ Initialize
    \/ cronRun = None /\ AppReady
    \/ cronRun = None /\ SelectLine
    \/ cronRun = None /\ LineLoaded
    \/ cronRun = None /\ FetchLive
    \/ cronRun = None /\ FetchLiveDone
LoopSpec == Init /\ [][LoopNext]_vars /\ WF_vars(CronIteration) /\ WF_vars(CronResponds)

--------------------------------------------------------------------------
(* What the polling-loop claim speaks of *)

\* the handler's run, when it is in its loop or past it
TheRun  == Get(cronRun)
Looping == cronRun # None /\ TheRun.pc = "loop"

\* iteration i of the run was made and failed
FailedAt(i) == cronRun # None /\ Len(TheRun.results) >= i /\ TheRun.results[i].error

\* the most iterations a run can make: one every interval until the budget
MaxIterations == (TOTAL_RUN_TIME_MS \div INTERVAL_MS) + 1

\* every iteration made, failed or not, has left its record, in order
EveryIterationRecorded ==
    (cronRun # None) =>
        /\ Len(TheRun.results) = TheRun.iterations
        /\ \A i \in 1..Len(TheRun.results) : TheRun.results[i].iteration = i

\* the loop is left in this step
LoopLeft == Looping /\ Get(cronRun').pc = "exit"

\* the budget is used up: the next iteration would begin, an interval after
\* the last one began or when the last one ended, at or past the budget
BudgetUsedUp ==
    \/ Get(cronRun').elapsed >= TOTAL_RUN_TIME_MS
    \/ TheRun.elapsed + INTERVAL_MS >= TOTAL_RUN_TIME_MS

====
